---- MODULE Spec2Model ----
(***************************************************************************)
(* A model of the cache / permission / history core of curious:            *)
(*   - Channel.effective_permissions   (src/curious/dataclasses/channel.py) *)
(*   - Guild chunking state            (src/curious/dataclasses/guild.py)   *)
(*   - HistoryIterator                 (src/curious/dataclasses/channel.py) *)
(* A permission bitfield is modelled as the set of its set bit positions:   *)
(* a | b is union, a & ~b is set difference.                                *)
(***************************************************************************)
EXTENDS Integers, Sequences, FiniteSets, TLC

VARIABLES
    \* ---- guild cache (guild.py) ----
    unavailable,        \* Guild.unavailable
    roles,              \* Guild._roles: role id -> baseline permission bits
    members,            \* Guild._members: member id -> [roles, nick, oid]
    member_count,       \* Guild.member_count
    chunks_left,        \* Guild._chunks_left
    finished_chunking,  \* Guild._finished_chunking (curio.Event flag)
    wait_state,         \* per task: where it is in wait_until_chunked()
    chunk_log,          \* history: this chunking cycle's member count and chunks
    channels,           \* Guild._channels: channel id -> channel
    emojis,             \* Guild._emojis: emoji id -> emoji
    objects_made,       \* Member objects constructed so far
    last_event,         \* history: the last snapshot / member chunk applied
    \* ---- channel (channel.py) ----
    channel_guild_id,   \* Channel.guild_id (None = 0)
    guild_cached,       \* the client's guild table still holds the guild
    overwrites,         \* Channel._overwrites: principal id -> overwrite
    perm_result,        \* value returned by the last effective_permissions call
    \* ---- history iterator (channel.py) ----
    chan_msgs,          \* number of messages in the channel (ids 1..chan_msgs)
    max_messages,       \* HistoryIterator.max_messages
    before,             \* HistoryIterator.before (None = 0)
    after,              \* HistoryIterator.after  (None = 0)
    last_message_id,    \* HistoryIterator.last_message_id (None = 0)
    current_count,      \* HistoryIterator.current_count
    messages,           \* HistoryIterator.messages (the deque)
    yielded,            \* history: ids returned by __anext__, in order
    fetches,            \* history: page requests sent to the transport
    it_state,           \* "idle" | "active" | "stopped" (StopAsyncIteration raised)
    \* ---- purge / bulk_delete (channel.py) ----
    op,                 \* "none" | "purge" | "bulk_delete": the operation called
    pc,                 \* "start" | "collect" | "loop" | "done" | "failed"
    fallback_from_bulk, \* purge's fallback_from_bulk argument
    purge_check,        \* purge's author / content / predicate filter
    to_delete,          \* the deletion candidates (message ids), in order
    minimum_allowed,    \* the smallest id young enough for bulk deletion
    can_bulk_delete,    \* purge's local flag
    chunks_done,        \* iterations of purge's loop over message_chunks so far
    delete_calls,       \* history: remote delete calls issued, in order
    outcome,            \* what the operation returned or raised
    \* ---- overwrite updates and API calls (channel.py, guild.py) ----
    ow_received,        \* history: the records the overwrite table was last built from
    call,               \* the last API call: its name, argument and outcome
    transport,          \* history: Transport requests the last API call issued
    channel_type,       \* Channel.type: "text" | "voice"
    \* ---- add_roles / remove_roles / change_nickname step by step (guild.py) ----
    task_pc,            \* the caller: "idle" | "spawned" | "awaiting" | "joining" | "returned" | "raised"
    listener,           \* the listener task: "none" | "ready" | "listening" | "done" | "cancelled"
    run_queue,          \* the scheduler's queue of runnable tasks, oldest first
    response,           \* the remote side's answer to the request: "none" | "ok" | "Forbidden"
    observed,           \* history: member_update events the listener's predicate accepted
    missed              \* history: events that followed the request and met no listener

guildVars   == <<unavailable, roles, members, member_count, chunks_left,
                 finished_chunking, wait_state, chunk_log, channels, emojis,
                 objects_made, last_event>>
channelVars == <<channel_guild_id, guild_cached, overwrites, perm_result>>
historyVars == <<chan_msgs, max_messages, before, after, last_message_id,
                 current_count, messages, yielded, fetches, it_state>>
deleteVars  == <<op, pc, fallback_from_bulk, purge_check, to_delete,
                 minimum_allowed, can_bulk_delete, chunks_done, delete_calls,
                 outcome>>
callVars    == <<ow_received, call, transport, channel_type>>
taskVars    == <<task_pc, listener, run_queue, response, observed, missed>>
vars == <<guildVars, channelVars, historyVars, deleteVars, callVars, taskVars>>

\* Python's None for an id or anchor; `if self.before:` treats 0 alike.
None == 0

Min(a, b) == IF a <= b THEN a ELSE b

Max(a, b) == IF a >= b THEN a ELSE b

Reverse(s) == [i \in 1..Len(s) |-> s[Len(s) + 1 - i]]

\* What a call gave back: a value, Python's None, or an exception by name.
Value(v) == [kind |-> "value", value |-> v]

ReturnedNone == [kind |-> "None", value |-> None]

Raises(error) == [kind |-> error, value |-> None]

\* The record of one API call: its name, its argument and what it gave back.
Call(name, arg, res) ==
    [name |-> name, arg |-> arg, kind |-> res.kind, value |-> res.value]

(***************************************************************************)
(* Identifiers                                                             *)
(***************************************************************************)
\* The guild's id; the role with this id is the everyone (default) role.
GuildId == 1

\* The other roles of the guild.
RoleIds == {2, 3}

\* The members of the guild.
MemberIds == {4}

AllRoleIds == {GuildId} \cup RoleIds

\* The channels and emojis of the guild.
ChannelIds == {5, 6}

EmojiIds == {7}

\* A role id no snapshot of the guild carries.
UnknownRoleIds == {9}

\* The tasks that may call wait_until_chunked().
Tasks == {"t1", "t2"}

\* Member-chunk events followed within one chunking cycle.
MaxChunkEvents == 4

\* The most messages a channel holds.
MaxChannelMsgs == 250

\* Advances a consumer makes on one cursor.
MaxAdvances == 8

\* Page requests after which the consumer makes no further explicit
\* fill_messages() call.
MaxFetches == 3

(***************************************************************************)
(* Permission bitfields                                                    *)
(***************************************************************************)
\* Width of the all-permissions bitfield.
PermissionWidth == 53

ADMINISTRATOR == 3

SEND_MESSAGES == 11

\* kick, ban, administrator, manage_channels, manage_guild, manage_messages,
\* manage_nicknames, manage_roles, manage_webhooks, manage_emojis
AdministrativeBits == {1, 2, 3, 4, 5, 13, 27, 28, 29, 30}

RECURSIVE BitsFrom(_, _)
\* The set bits of n, the lowest counted as bit i.
BitsFrom(n, i) ==
    IF n = 0 THEN {}
    ELSE (IF n % 2 = 1 THEN {i} ELSE {}) \cup BitsFrom(n \div 2, i + 1)

\* The bits of an integer bitfield.
BitsOf(n) == BitsFrom(n, 0)

\* Permissions.all()
Permissions_all == 0..(PermissionWidth - 1)

\* The bits role baselines and overwrites are drawn from.
PermBits == {ADMINISTRATOR, SEND_MESSAGES}

(***************************************************************************)
(* Channel.effective_permissions                                           *)
(***************************************************************************)
\* Faulty variant: the fixed bitfield with manage_messages (8192) added.
DM_PERMISSIONS_WithManage == 515136 + 8192

\* The fixed bitfield of a channel without a guild.
DM_PERMISSIONS == 515136

NoResult == [kind |-> "none", member |-> None, bits |-> {}]

\* Channel.guild: the guild the client's table resolves guild_id to, if any.
ChannelHasGuild == channel_guild_id # None /\ guild_cached

\* Member.roles: the ids of the Role objects the member holds.
MemberRoles(m) == members[m].roles

\* The everyone role's baseline OR-ed with the baseline of every held role.
BaselinePermissions(m) ==
    roles[GuildId] \cup UNION {roles[r] : r \in MemberRoles(m) \cap DOMAIN roles}

\* Faulty variant: the allow bits are set first and the deny bits cleared last.
ApplyOverwrite_DenyLast(p, allow, deny) == (p \cup allow) \ deny

\* permissions.bitfield &= ~deny ; permissions.bitfield |= allow
ApplyOverwrite(p, allow, deny) == (p \ deny) \cup allow

\* The overwrite stored for the default role, if any.
EveryoneTier(p) ==
    IF GuildId \in DOMAIN overwrites
    THEN ApplyOverwrite(p, overwrites[GuildId].allow, overwrites[GuildId].deny)
    ELSE p

\* allow and deny aggregated over the overwrites of the held roles.
RoleTier(p, m) ==
    LET held  == MemberRoles(m) \cap DOMAIN overwrites
        allow == UNION {overwrites[r].allow : r \in held}
        deny  == UNION {overwrites[r].deny : r \in held}
    IN ApplyOverwrite(p, allow, deny)

\* The overwrite stored for this exact member, if any.
MemberTier(p, m) ==
    IF m \in DOMAIN overwrites
    THEN ApplyOverwrite(p, overwrites[m].allow, overwrites[m].deny)
    ELSE p

\* Faulty variant: administrators are resolved through the overwrites like anyone.
effective_permissions_NoShortCircuit(m) ==
    IF ~ChannelHasGuild
    THEN BitsOf(DM_PERMISSIONS)
    ELSE MemberTier(RoleTier(EveryoneTier(BaselinePermissions(m)), m), m)

\* Faulty variant: the member overwrite is applied before the role overwrites.
effective_permissions_MemberFirst(m) ==
    IF ~ChannelHasGuild
    THEN BitsOf(DM_PERMISSIONS)
    ELSE IF ADMINISTRATOR \in BaselinePermissions(m)
         THEN Permissions_all
         ELSE RoleTier(MemberTier(EveryoneTier(BaselinePermissions(m)), m), m)

RECURSIVE ApplyInReceivedOrder(_, _, _)
\* The overwrites that concern m, applied one by one in the order recs has.
ApplyInReceivedOrder(p, recs, m) ==
    IF recs = <<>> THEN p
    ELSE LET rec == Head(recs)
             q   == IF rec.id \in {GuildId, m} \cup MemberRoles(m)
                    THEN ApplyOverwrite(p, rec.allow, rec.deny)
                    ELSE p
         IN ApplyInReceivedOrder(q, Tail(recs), m)

\* Faulty variant: the overwrites are applied in the order they were received.
effective_permissions_ReceivedOrder(m) ==
    IF ~ChannelHasGuild
    THEN BitsOf(DM_PERMISSIONS)
    ELSE IF ADMINISTRATOR \in BaselinePermissions(m)
         THEN Permissions_all
         ELSE ApplyInReceivedOrder(BaselinePermissions(m), ow_received, m)

effective_permissions(m) ==
    IF ~ChannelHasGuild
    THEN BitsOf(DM_PERMISSIONS)
    ELSE IF ADMINISTRATOR \in BaselinePermissions(m)
         THEN Permissions_all
         ELSE MemberTier(RoleTier(EveryoneTier(BaselinePermissions(m)), m), m)

\* A caller asks for m's effective permissions; the channel is left as it was.
QueryEffectivePermissions(m) ==
    /\ m \in DOMAIN members
    /\ perm_result = NoResult
    /\ perm_result' = IF ChannelHasGuild /\ GuildId \notin DOMAIN roles
                      THEN [kind |-> "KeyError", member |-> m, bits |-> {}]
                      ELSE [kind |-> "ok", member |-> m,
                            bits |-> effective_permissions(m)]
    /\ UNCHANGED <<channel_guild_id, guild_cached, overwrites>>
    /\ UNCHANGED <<guildVars, historyVars, deleteVars, callVars, taskVars>>

\* The client drops the guild from its table: Channel.guild now yields None.
GuildRemoved ==
    /\ channel_guild_id # None
    /\ guild_cached
    /\ perm_result = NoResult
    /\ guild_cached' = FALSE
    /\ UNCHANGED <<channel_guild_id, overwrites, perm_result>>
    /\ UNCHANGED <<guildVars, historyVars, deleteVars, callVars, taskVars>>

\* The channel the model follows.
ThisChannel == CHOOSE c \in ChannelIds : TRUE

\* dt_permissions.Overwrite(allow, deny, obb, channel_id) with its _immutable
\* mark; obb is the id of the principal object, None when there is none.
Overwrite(allow, deny, obb, channel_id, immutable) ==
    [allow |-> allow, deny |-> deny, obb |-> obb, channel_id |-> channel_id,
     immutable |-> immutable]

\* guild._members.get(id_) for a member record, guild._roles.get(id_) else.
ResolvePrincipal(rec) ==
    IF rec.type = "member"
    THEN IF rec.id \in DOMAIN members THEN rec.id ELSE None
    ELSE IF rec.id \in DOMAIN roles THEN rec.id ELSE None

\* Faulty variant: the stored overwrite is left mutable.
StoreOverwrite_Mutable(table, rec) ==
    [k \in DOMAIN table \cup {rec.id} |->
        IF k = rec.id
        THEN Overwrite(rec.allow, rec.deny, ResolvePrincipal(rec), ThisChannel,
                       FALSE)
        ELSE table[k]]

\* One pass of _update_overwrites' loop: the overwrite built from the record
\* is stored under the record's id and marked immutable.
StoreOverwrite(table, rec) ==
    [k \in DOMAIN table \cup {rec.id} |->
        IF k = rec.id
        THEN Overwrite(rec.allow, rec.deny, ResolvePrincipal(rec), ThisChannel,
                       TRUE)
        ELSE table[k]]

RECURSIVE TableFrom(_, _)
\* _update_overwrites' loop over the records, in order.
TableFrom(table, recs) ==
    IF recs = <<>> THEN table
    ELSE TableFrom(StoreOverwrite(table, Head(recs)), Tail(recs))

\* Faulty variant: the records are stored into the table as it was.
RebuiltTable_Merge(old, recs) == TableFrom(old, recs)

\* "self._overwrites = {}" followed by the loop: the old table is dropped.
RebuiltTable(old, recs) == TableFrom(<<>>, recs)

\* Channel._update_overwrites(overwrites): refused on a channel without a
\* guild id; otherwise the table is emptied and rebuilt from the records.
\* With a guild id the client's table does not resolve, the first record
\* fails on self.guild._members / ._roles and leaves the table empty.
UpdateOverwrites(recs) ==
    /\ IF channel_guild_id = None
       THEN /\ call' = Call("_update_overwrites", None, Raises("CuriousError"))
            /\ UNCHANGED <<overwrites, ow_received>>
       ELSE IF ~guild_cached /\ recs # <<>>
       THEN /\ call' = Call("_update_overwrites", None, Raises("AttributeError"))
            /\ overwrites' = <<>>
            /\ ow_received' = <<>>
       ELSE /\ call' = Call("_update_overwrites", None, ReturnedNone)
            /\ overwrites' = RebuiltTable(overwrites, recs)
            /\ ow_received' = recs
    /\ UNCHANGED <<channel_guild_id, guild_cached, perm_result, transport,
                   channel_type>>
    /\ UNCHANGED <<guildVars, historyVars, deleteVars, taskVars>>

\* Faulty variant: the everyone overwrite is not consulted.
PermissionsOf_BaselineOnly(p) ==
    IF ~ChannelHasGuild
    THEN Overwrite(BitsOf(DM_PERMISSIONS), {}, p, ThisChannel, TRUE)
    ELSE IF p \in DOMAIN overwrites
    THEN overwrites[p]
    ELSE Overwrite(roles[GuildId], {}, p, ThisChannel, TRUE)

\* The overwrite Channel.permissions(obb) returns for the principal with id
\* p: the stored one, or one built from the everyone overwrite, or from the
\* everyone role's baseline.
PermissionsOf(p) ==
    IF ~ChannelHasGuild
    THEN Overwrite(BitsOf(DM_PERMISSIONS), {}, p, ThisChannel, TRUE)
    ELSE IF p \in DOMAIN overwrites
    THEN overwrites[p]
    ELSE IF GuildId \in DOMAIN overwrites
    THEN Overwrite(overwrites[GuildId].allow, overwrites[GuildId].deny, p,
                   ThisChannel, TRUE)
    ELSE Overwrite(roles[GuildId], {}, p, ThisChannel, TRUE)

\* Faulty variant: an overwrite built for the call is stored in the table.
ChannelPermissions_Cached(p) ==
    /\ ~(ChannelHasGuild /\ p \notin DOMAIN overwrites
            /\ GuildId \notin DOMAIN roles)
    /\ call' = Call("permissions", p, Value(PermissionsOf(p)))
    /\ overwrites' = IF ChannelHasGuild
                     THEN [k \in DOMAIN overwrites \cup {p} |->
                              IF k = p THEN PermissionsOf(p) ELSE overwrites[k]]
                     ELSE overwrites
    /\ UNCHANGED <<channel_guild_id, guild_cached, perm_result>>
    /\ UNCHANGED <<ow_received, transport, channel_type>>
    /\ UNCHANGED <<guildVars, historyVars, deleteVars, taskVars>>

\* Channel.permissions(obb) for the principal with id p; default_role raises
\* KeyError when the guild has no role keyed by its own id.
ChannelPermissions(p) ==
    /\ call' = IF ChannelHasGuild /\ p \notin DOMAIN overwrites
                    /\ GuildId \notin DOMAIN roles
               THEN Call("permissions", p, Raises("KeyError"))
               ELSE Call("permissions", p, Value(PermissionsOf(p)))
    /\ UNCHANGED <<channel_guild_id, guild_cached, overwrites, perm_result>>
    /\ UNCHANGED <<ow_received, transport, channel_type>>
    /\ UNCHANGED <<guildVars, historyVars, deleteVars, taskVars>>

(***************************************************************************)
(* Guild: chunking and member upsert (guild.py)                            *)
(***************************************************************************)
\* The remote service delivers members in chunks of this many.
CHUNK_SIZE == 1000

\* Faulty variant: member_count // 1000, a partly filled chunk not counted.
ChunksFor_Floor(count) == count \div CHUNK_SIZE

\* ceil(member_count / 1000)
ChunksFor(count) == (count + CHUNK_SIZE - 1) \div CHUNK_SIZE

\* Faulty variant: the counter is decremented without the ">= 1" guard.
ChunksLeftAfter_Unguarded(n) == n - 1

\* _handle_member_chunk: "if self._chunks_left >= 1: self._chunks_left -= 1"
ChunksLeftAfter(n) == IF n >= 1 THEN n - 1 ELSE n

\* A Member built from a record: its role table starts empty. oid tells
\* the object from every other Member object ever constructed.
NewMember(rec, oid) == [roles |-> {}, nick |-> rec.nick, oid |-> oid]

\* The largest object number in use, given that `made` objects existed
\* before the event.
LastOid(ms, made) ==
    LET used == {ms[i].oid : i \in DOMAIN ms} \cup {made}
    IN CHOOSE n \in used : \A k \in used : k <= n

\* Faulty variant: a new Member object is constructed for every record.
UpsertMember_AlwaysNew(ms, rs, rec, made) ==
    LET obj   == NewMember(rec, LastOid(ms, made) + 1)
        known == {r \in rec.roles : r \in DOMAIN rs}
    IN [i \in DOMAIN ms \cup {rec.id} |->
            IF i = rec.id THEN [obj EXCEPT !.roles = @ \cup known] ELSE ms[i]]

\* Faulty variant: every role id of the record is added, known or not.
UpsertMember_NoRoleLookup(ms, rs, rec, made) ==
    LET obj == IF rec.id \in DOMAIN ms THEN ms[rec.id]
               ELSE NewMember(rec, LastOid(ms, made) + 1)
    IN [i \in DOMAIN ms \cup {rec.id} |->
            IF i = rec.id THEN [obj EXCEPT !.roles = @ \cup rec.roles] ELSE ms[i]]

\* The body of _handle_member_chunk's loop for one record: the cached object
\* is reused when there is one, and every role of the record that the guild
\* knows is added to the member's role table.
UpsertMember(ms, rs, rec, made) ==
    LET obj   == IF rec.id \in DOMAIN ms THEN ms[rec.id]
                 ELSE NewMember(rec, LastOid(ms, made) + 1)
        known == {r \in rec.roles : r \in DOMAIN rs}
    IN [i \in DOMAIN ms \cup {rec.id} |->
            IF i = rec.id THEN [obj EXCEPT !.roles = @ \cup known] ELSE ms[i]]

RECURSIVE ApplyMemberRecords(_, _, _, _)
\* _handle_member_chunk's loop over the records, in order.
ApplyMemberRecords(ms, rs, recs, made) ==
    IF recs = <<>> THEN ms
    ELSE ApplyMemberRecords(UpsertMember(ms, rs, Head(recs), made), rs,
                            Tail(recs), made)

\* The ids a snapshot carries, by collection; none for an event that is
\* no snapshot.
NoKeys == [unavailable |-> FALSE, roles |-> {}, channels |-> {}, emojis |-> {}]

SnapshotKeys(data) ==
    [unavailable |-> data.unavailable, roles |-> DOMAIN data.roles,
     channels |-> data.channels, emojis |-> data.emojis]

\* The record of a cache event: its kind, the ids of the snapshot and the
\* member records it carried, and the member map as it was before.
Event(kind, keys, recs, prior) ==
    [kind |-> kind, snapshot |-> keys, recs |-> recs, prior |-> prior]

NoEvent == Event("none", NoKeys, <<>>, <<>>)

\* The channels (emojis) map after those of a snapshot were stored in it.
StoreAll(map, ids) == [i \in DOMAIN map \cup ids |-> [guild |-> GuildId]]

\* Event.set(): every suspended waiter is released.
ReleasedWaiters ==
    [t \in Tasks |-> IF wait_state[t] = "waiting" THEN "released" ELSE wait_state[t]]

\* Guild.start_chunking
StartChunking ==
    /\ finished_chunking' = FALSE
    /\ chunks_left' = ChunksFor(member_count)
    /\ chunk_log' = [started |-> TRUE, count |-> member_count, applied |-> 0]
    /\ UNCHANGED <<unavailable, roles, members, member_count, wait_state,
                   channels, emojis, objects_made, last_event>>
    /\ UNCHANGED <<channelVars, historyVars, deleteVars, callVars, taskVars>>

\* Guild.wait_until_chunked: Event.wait() returns at once when the event is
\* set and suspends the caller otherwise.
WaitUntilChunked(t) ==
    /\ wait_state[t] # "waiting"
    /\ wait_state' = [wait_state EXCEPT
                        ![t] = IF finished_chunking THEN "returned" ELSE "waiting"]
    /\ UNCHANGED <<unavailable, roles, members, member_count, chunks_left,
                   finished_chunking, chunk_log, channels, emojis,
                   objects_made, last_event>>
    /\ UNCHANGED <<channelVars, historyVars, deleteVars, callVars, taskVars>>

\* The member-chunk event: Guild._handle_member_chunk(recs), after which the
\* completion signal fires if no chunk remains outstanding.
HandleMemberChunk(recs) ==
    /\ chunk_log.applied < MaxChunkEvents
    /\ chunks_left' = ChunksLeftAfter(chunks_left)
    /\ members' = ApplyMemberRecords(members, roles, recs, objects_made)
    /\ objects_made' = LastOid(members', objects_made)
    /\ last_event' = Event("chunk", NoKeys, recs, members)
    /\ chunk_log' = IF chunk_log.started
                    THEN [chunk_log EXCEPT !.applied = @ + 1]
                    ELSE chunk_log
    /\ IF chunks_left' <= 0
       THEN finished_chunking' = TRUE /\ wait_state' = ReleasedWaiters
       ELSE UNCHANGED <<finished_chunking, wait_state>>
    /\ UNCHANGED <<unavailable, roles, member_count, channels, emojis>>
    /\ UNCHANGED <<channelVars, historyVars, deleteVars, callVars, taskVars>>

\* Guild.from_guild_create: an unavailable snapshot only sets the flag; an
\* available one stores member_count, adds its roles to the role table,
\* hands its members to _handle_member_chunk and stores its channels and
\* emojis.
FromGuildCreate(data) ==
    /\ unavailable' = data.unavailable
    /\ last_event' = Event("snapshot", SnapshotKeys(data), data.members, members)
    /\ IF data.unavailable
       THEN UNCHANGED <<roles, members, member_count, chunks_left, channels,
                        emojis, objects_made>>
       ELSE /\ member_count' = data.member_count
            /\ roles' = [r \in DOMAIN roles \cup DOMAIN data.roles |->
                            IF r \in DOMAIN data.roles THEN data.roles[r]
                            ELSE roles[r]]
            /\ members' = ApplyMemberRecords(members, roles', data.members,
                                             objects_made)
            /\ objects_made' = LastOid(members', objects_made)
            /\ chunks_left' = ChunksLeftAfter(chunks_left)
            /\ channels' = StoreAll(channels, data.channels)
            /\ emojis' = StoreAll(emojis, data.emojis)
    /\ UNCHANGED <<finished_chunking, wait_state, chunk_log>>
    /\ UNCHANGED <<channelVars, historyVars, deleteVars, callVars, taskVars>>

\* Faulty variant: map[key], which raises KeyError when the key is absent.
DictGet_Subscript(map, key) ==
    IF key \in DOMAIN map THEN Value(map[key]) ELSE Raises("KeyError")

\* dict.get(key): the stored value, or None when the key is absent.
DictGet(map, key) ==
    IF key \in DOMAIN map THEN Value(map[key]) ELSE ReturnedNone

\* Guild.get_member(member_id)
GetMember(id) ==
    /\ call' = Call("get_member", id, DictGet(members, id))
    /\ UNCHANGED <<ow_received, transport, channel_type>>
    /\ UNCHANGED <<guildVars, channelVars, historyVars, deleteVars, taskVars>>

\* Guild.get_role(role_id)
GetRole(id) ==
    /\ call' = Call("get_role", id, DictGet(roles, id))
    /\ UNCHANGED <<ow_received, transport, channel_type>>
    /\ UNCHANGED <<guildVars, channelVars, historyVars, deleteVars, taskVars>>

\* Guild.get_channel(channel_id)
GetChannel(id) ==
    /\ call' = Call("get_channel", id, DictGet(channels, id))
    /\ UNCHANGED <<ow_received, transport, channel_type>>
    /\ UNCHANGED <<guildVars, channelVars, historyVars, deleteVars, taskVars>>

\* Guild.get_emoji(emoji_id)
GetEmoji(id) ==
    /\ call' = Call("get_emoji", id, DictGet(emojis, id))
    /\ UNCHANGED <<ow_received, transport, channel_type>>
    /\ UNCHANGED <<guildVars, channelVars, historyVars, deleteVars, taskVars>>

\* Channel.parent on a channel whose parent_id is pid. guild.channels is the
\* values view of _channels: subscripting it raises TypeError, which the
\* except clause (KeyError, AttributeError) lets through; without a guild
\* the attribute access on None is caught and None comes back.
ChannelParent(pid) ==
    /\ call' = IF ChannelHasGuild
               THEN Call("parent", pid, Raises("TypeError"))
               ELSE Call("parent", pid, ReturnedNone)
    /\ UNCHANGED <<ow_received, transport, channel_type>>
    /\ UNCHANGED <<guildVars, channelVars, historyVars, deleteVars, taskVars>>

(***************************************************************************)
(* HistoryIterator (channel.py)                                            *)
(***************************************************************************)
\* fill_messages asks for this many when the iterator is unbounded.
DEFAULT_TO_GET == 100

\* The most messages the transport returns for one page request.
PAGE_MAX == 100

\* The page size of a request that names no limit.
HTTP_DEFAULT_LIMIT == 100

\* get_message_history(before=anchor, limit): the newest messages older than
\* the anchor, newest first. The channel holds the ids 1..n.
PageBefore(n, anchor, limit) ==
    LET top == Min(anchor - 1, n)
        cnt == Min(Min(limit, PAGE_MAX), Max(top, 0))
    IN [i \in 1..cnt |-> top + 1 - i]

\* get_message_history(after=anchor): the oldest messages newer than the
\* anchor, or the newest messages of the channel when the anchor is None;
\* newest first in both cases.
PageAfter(n, anchor, limit) ==
    LET cnt == Min(Min(limit, PAGE_MAX), Max(n - anchor, 0))
        top == IF anchor = None THEN n ELSE anchor + cnt
    IN [i \in 1..cnt |-> top + 1 - i]

\* Faulty variant: an after page is buffered in the order it was received.
ReceivedAfterPage_AsReceived(page) == page

\* messages = reversed(messages)
ReceivedAfterPage(page) == Reverse(page)

\* fill_messages when current_count = count: the buffer and the request log
\* after the call.
FillMessages(count) ==
    LET to_get == IF max_messages < 0 THEN DEFAULT_TO_GET
                  ELSE max_messages - count
    IN IF to_get <= 0
       THEN [messages |-> messages, fetches |-> fetches]
       ELSE IF before # None
            THEN LET page == PageBefore(chan_msgs, last_message_id, to_get)
                 IN [messages |-> messages \o page,
                     fetches  |-> Append(fetches,
                                    [dir |-> "before", anchor |-> last_message_id,
                                     limit |-> to_get, got |-> Len(page),
                                     yielded |-> Len(yielded)])]
            ELSE LET page == PageAfter(chan_msgs, last_message_id,
                                       HTTP_DEFAULT_LIMIT)
                 IN [messages |-> messages \o ReceivedAfterPage(page),
                     fetches  |-> Append(fetches,
                                    [dir |-> "after", anchor |-> last_message_id,
                                     limit |-> HTTP_DEFAULT_LIMIT, got |-> Len(page),
                                     yielded |-> Len(yielded)])]

\* The body of HistoryIterator.__anext__: it reads no record of an earlier
\* StopAsyncIteration.
Advance ==
    /\ current_count' = current_count + 1
    /\ IF current_count' = max_messages
       THEN /\ it_state' = "stopped"
            /\ UNCHANGED <<messages, fetches, last_message_id, yielded>>
       ELSE LET filled == IF Len(messages) <= 0 THEN FillMessages(current_count')
                          ELSE [messages |-> messages, fetches |-> fetches]
            IN /\ fetches' = filled.fetches
               /\ IF filled.messages = <<>>
                  THEN /\ it_state' = "stopped"
                       /\ messages' = <<>>
                       /\ UNCHANGED <<last_message_id, yielded>>
                  ELSE /\ it_state' = "active"
                       /\ messages' = Tail(filled.messages)
                       /\ last_message_id' = Head(filled.messages)
                       /\ yielded' = Append(yielded, Head(filled.messages))
    /\ UNCHANGED <<chan_msgs, max_messages, before, after>>
    /\ UNCHANGED <<guildVars, channelVars, deleteVars, callVars, taskVars>>

\* HistoryIterator.__anext__ as one step of `async for`, which stops asking
\* at the first StopAsyncIteration.
Anext ==
    /\ it_state = "active"
    /\ Advance

\* HistoryIterator.next() on a cursor whose last advance signalled the end.
NextAfterEnd ==
    /\ it_state = "stopped"
    /\ current_count < MaxAdvances
    /\ Advance

\* An explicit fill_messages() call by the consumer, between two advances.
FillMessagesCall ==
    /\ it_state = "active"
    /\ Len(fetches) < MaxFetches
    /\ LET filled == FillMessages(current_count)
       IN /\ messages' = filled.messages
          /\ fetches' = filled.fetches
    /\ UNCHANGED <<chan_msgs, max_messages, before, after, last_message_id,
                   current_count, yielded, it_state>>
    /\ UNCHANGED <<guildVars, channelVars, deleteVars, callVars, taskVars>>

(***************************************************************************)
(* ChannelMessageWrapper.purge and bulk_delete (channel.py), Message.delete *)
(* (message.py)                                                            *)
(***************************************************************************)
MANAGE_MESSAGES == 13

READ_MESSAGE_HISTORY == 16

\* purge slices its candidates with to_delete[i:i + 100].
BATCH_MAX == 100

\* The default of purge's limit parameter.
DEFAULT_LIMIT == 100

\* Messages posted to the channel between two page fetches of a traversal.
ArrivalBurst == 75

\* guild.me: the member the client acts as.
Me == CHOOSE m \in MemberIds : TRUE

NoOutcome == [kind |-> "none", value |-> 0]

Raised(kind, value) == [kind |-> kind, value |-> value]

Returned(value) == [kind |-> "returned", value |-> value]

\* The width of the low part of a snowflake: "<< 22".
SNOWFLAKE_SHIFT == 22

\* Clock readings per millisecond: time.time() is finer than a millisecond.
ClockTicksPerMs == 2

\* floor((time.time() - 14 * 24 * 60 * 60) * 1000.0 - 1420070400000) << 22.
\* The clock reading `since` is counted in ticks from the instant 14 days
\* after 2015-01-01T00:00:00Z, so that the two subtractions are already
\* made; what remains is the floor to whole milliseconds and the shift.
MinimumAllowed(since) == (since \div ClockTicksPerMs) * 2^SNOWFLAKE_SHIFT

\* Faulty variant: an id equal to the cutoff counts as too old as well.
TooOld_Inclusive(id, cutoff) == id <= cutoff

\* Faulty variant: no id counts as too old.
TooOld_Never(id, cutoff) == FALSE

\* message.id < minimum_allowed
TooOld(id, cutoff) == id < cutoff

\* Position of the first id of the list that is too old, 0 if there is none:
\* the id the loop over the messages raises CuriousError for.
FirstTooOld(ids, cutoff) ==
    LET bad == {i \in DOMAIN ids : TooOld(ids[i], cutoff)}
    IN IF bad = {} THEN 0 ELSE CHOOSE i \in bad : \A j \in bad : i <= j

\* all(check(message) for check in checks): no filter, or a filter that
\* some messages pass (here those with an odd id).
Matches(check, id) == check = "all" \/ id % 2 = 1

Selected(ids, check) == SelectSeq(ids, LAMBDA id : Matches(check, id))

\* len(message_chunks)
NumChunks(ids) == (Len(ids) + BATCH_MAX - 1) \div BATCH_MAX

\* message_chunks[k - 1]
MessageChunk(ids, k) ==
    SubSeq(ids, BATCH_MAX * (k - 1) + 1, Min(BATCH_MAX * k, Len(ids)))

\* http.delete_multiple_messages(channel.id, ids) and the transport's answer
BulkCall(ids, resp) == [kind |-> "bulk", ids |-> ids, resp |-> resp]

\* Faulty variant: the batch whose bulk call was refused is skipped.
SingleCalls_None(ids) == <<>>

\* http.delete_message(channel.id, id), once per message of the list
SingleCalls(ids) ==
    [i \in DOMAIN ids |-> [kind |-> "single", ids |-> <<ids[i]>>, resp |-> "ok"]]

\* Message.delete raises PermissionsError: "self.id != me and not
\* has_manage_messages", where self.id is the message's id, which is never
\* the id of a user, and has_manage_messages is False without a guild.
MessageDeleteRefused ==
    ~(ChannelHasGuild /\ MANAGE_MESSAGES \in effective_permissions(Me))

\* Faulty variant: a refused bulk call is never re-raised.
PropagatesForbidden_Never(fallback) == FALSE

\* "if not fallback_from_bulk: raise"
PropagatesForbidden(fallback) == ~fallback

\* purge up to the traversal: the permission check, then get_history(limit)
\* with its own permission check and the construction of the iterator.
PurgeBegin(limit, fallback, check) ==
    /\ op = "none"
    /\ op' = "purge"
    /\ fallback_from_bulk' = fallback
    /\ purge_check' = check
    /\ IF ChannelHasGuild /\ MANAGE_MESSAGES \notin effective_permissions(Me)
          /\ ~fallback
       THEN /\ pc' = "failed"
            /\ outcome' = Raised("PermissionsError", MANAGE_MESSAGES)
            /\ UNCHANGED historyVars
       ELSE IF ChannelHasGuild
               /\ READ_MESSAGE_HISTORY \notin effective_permissions(Me)
            THEN /\ pc' = "failed"
                 /\ outcome' = Raised("PermissionsError", READ_MESSAGE_HISTORY)
                 /\ UNCHANGED historyVars
            ELSE /\ pc' = "collect"
                 /\ outcome' = outcome
                 /\ max_messages' = limit
                 /\ before' = None
                 /\ after' = None
                 /\ last_message_id' = None
                 /\ current_count' = 0
                 /\ messages' = <<>>
                 /\ yielded' = <<>>
                 /\ fetches' = <<>>
                 /\ it_state' = "active"
                 /\ UNCHANGED chan_msgs
    /\ UNCHANGED <<to_delete, minimum_allowed, can_bulk_delete, chunks_done,
                   delete_calls>>
    /\ UNCHANGED <<guildVars, channelVars, callVars, taskVars>>

\* Other users post to the channel while purge walks its history; what was
\* posted shows at the next page fetch.
MessagePosted ==
    /\ pc = "collect"
    /\ it_state = "active"
    /\ messages = <<>>
    /\ chan_msgs + ArrivalBurst <= MaxChannelMsgs
    /\ chan_msgs' = chan_msgs + ArrivalBurst
    /\ UNCHANGED <<max_messages, before, after, last_message_id, current_count,
                   messages, yielded, fetches, it_state>>
    /\ UNCHANGED <<guildVars, channelVars, deleteVars, callVars, taskVars>>

\* purge once `async for` has ended: the candidates that passed the checks,
\* can_bulk_delete = True and the cutoff computed from the clock.
PurgeSplit(cutoff) ==
    /\ op = "purge"
    /\ pc = "collect"
    /\ it_state = "stopped"
    /\ to_delete' = Selected(yielded, purge_check)
    /\ can_bulk_delete' = TRUE
    /\ minimum_allowed' = cutoff
    /\ chunks_done' = 0
    /\ pc' = "loop"
    /\ UNCHANGED <<op, fallback_from_bulk, purge_check, delete_calls, outcome>>
    /\ UNCHANGED <<guildVars, channelVars, historyVars, callVars, taskVars>>

\* One iteration of purge's loop over message_chunks: the age check of the
\* chunk, the bulk call if bulk deletion is still on, and the per-item
\* deletes of the chunk if it is off by then.
PurgeChunk(resp) ==
    /\ op = "purge"
    /\ pc = "loop"
    /\ chunks_done < NumChunks(to_delete)
    /\ can_bulk_delete \/ resp = "ok"
    /\ LET chunk  == MessageChunk(to_delete, chunks_done + 1)
           bad    == FirstTooOld(chunk, minimum_allowed)
           bulk   == IF can_bulk_delete THEN <<BulkCall(chunk, resp)>> ELSE <<>>
           can    == can_bulk_delete /\ resp = "ok"
           raised == /\ can_bulk_delete
                     /\ resp = "Forbidden"
                     /\ PropagatesForbidden(fallback_from_bulk)
       IN /\ chunks_done' = chunks_done + 1
          /\ IF bad # 0
             THEN /\ pc' = "failed"
                  /\ outcome' = Raised("CuriousError", chunk[bad])
                  /\ UNCHANGED <<can_bulk_delete, delete_calls>>
             ELSE /\ can_bulk_delete' = can
                  /\ IF raised
                     THEN /\ delete_calls' = delete_calls \o bulk
                          /\ pc' = "failed"
                          /\ outcome' = Raised("Forbidden", 0)
                     ELSE IF ~can /\ MessageDeleteRefused
                          THEN /\ delete_calls' = delete_calls \o bulk
                               /\ pc' = "failed"
                               /\ outcome' = Raised("PermissionsError",
                                                    MANAGE_MESSAGES)
                          ELSE /\ delete_calls' =
                                      delete_calls \o bulk
                                      \o (IF can THEN <<>> ELSE SingleCalls(chunk))
                               /\ pc' = "loop"
                               /\ outcome' = outcome
    /\ UNCHANGED <<op, fallback_from_bulk, purge_check, to_delete,
                   minimum_allowed>>
    /\ UNCHANGED <<guildVars, channelVars, historyVars, callVars, taskVars>>

\* "return len(to_delete)"
PurgeReturn ==
    /\ op = "purge"
    /\ pc = "loop"
    /\ chunks_done = NumChunks(to_delete)
    /\ pc' = "done"
    /\ outcome' = Returned(Len(to_delete))
    /\ UNCHANGED <<op, fallback_from_bulk, purge_check, to_delete,
                   minimum_allowed, can_bulk_delete, chunks_done, delete_calls>>
    /\ UNCHANGED <<guildVars, channelVars, historyVars, callVars, taskVars>>

\* bulk_delete(messages): the permission check, the age check of every
\* message, then one call that carries all the ids.
BulkDelete(msgs, cutoff, resp) ==
    /\ op = "none"
    /\ op' = "bulk_delete"
    /\ IF ChannelHasGuild /\ MANAGE_MESSAGES \notin effective_permissions(Me)
       THEN /\ pc' = "failed"
            /\ outcome' = Raised("PermissionsError", MANAGE_MESSAGES)
            /\ UNCHANGED <<to_delete, minimum_allowed, delete_calls>>
       ELSE LET bad == FirstTooOld(msgs, cutoff)
            IN /\ to_delete' = msgs
               /\ minimum_allowed' = cutoff
               /\ IF bad # 0
                  THEN /\ pc' = "failed"
                       /\ outcome' = Raised("CuriousError", msgs[bad])
                       /\ UNCHANGED delete_calls
                  ELSE /\ delete_calls' = <<BulkCall(msgs, resp)>>
                       /\ IF resp = "Forbidden"
                          THEN /\ pc' = "failed"
                               /\ outcome' = Raised("Forbidden", 0)
                          ELSE /\ pc' = "done"
                               /\ outcome' = Returned(Len(msgs))
    /\ UNCHANGED <<fallback_from_bulk, purge_check, can_bulk_delete, chunks_done>>
    /\ UNCHANGED <<guildVars, channelVars, historyVars, callVars, taskVars>>

(***************************************************************************)
(* ChannelMessageWrapper: send, upload, get_history, get; Channel.send_typing*)
(***************************************************************************)
EMBED_LINKS == 14

ATTACH_FILES == 15

\* "len(content) > 2000"
MAX_CONTENT == 2000

\* ChannelType.has_messages(): every type but VOICE and CATEGORY.
HasMessages(type) == type \notin {"voice", "category"}

\* Faulty variant: the acting member is taken to hold every bit.
MeLacks_Never(bit) == FALSE

\* "if self.channel.guild: if not effective_permissions(guild.me).<bit>"
MeLacks(bit) == ChannelHasGuild /\ bit \notin effective_permissions(Me)

\* One request handed to the Transport.
Request(name, arg) == [name |-> name, arg |-> arg]

\* What an action does once its checks are done: the given outcome and no
\* request when a check failed, else the one request and its reply.
Finish(name, arg, failure, request) ==
    IF failure # "none"
    THEN /\ call' = Call(name, arg, Raises(failure))
         /\ transport' = <<>>
    ELSE /\ call' = Call(name, arg, Value(arg))
         /\ transport' = <<Request(request, arg)>>

\* messages.send(content, embed=embed); content is given by its length.
Send(content, embed) ==
    /\ LET failure ==
           IF ~HasMessages(channel_type) THEN "CuriousError"
           ELSE IF MeLacks(SEND_MESSAGES) THEN "PermissionsError"
           ELSE IF content = 0 /\ ~embed THEN "CuriousError"
           ELSE IF content = 0 /\ MeLacks(EMBED_LINKS) THEN "PermissionsError"
           ELSE IF content > MAX_CONTENT THEN "CuriousError"
           ELSE "none"
       IN Finish("send", content, failure, "send_message")
    /\ UNCHANGED <<ow_received, channel_type>>
    /\ UNCHANGED <<guildVars, channelVars, historyVars, deleteVars, taskVars>>

\* messages.upload(fp); known tells whether fp is of a type upload reads.
Upload(known) ==
    /\ LET failure ==
           IF ~HasMessages(channel_type) THEN "CuriousError"
           ELSE IF MeLacks(SEND_MESSAGES) THEN "PermissionsError"
           ELSE IF MeLacks(ATTACH_FILES) THEN "PermissionsError"
           ELSE IF ~known THEN "ValueError"
           ELSE "none"
       IN Finish("upload", None, failure, "send_file")
    /\ UNCHANGED <<ow_received, channel_type>>
    /\ UNCHANGED <<guildVars, channelVars, historyVars, deleteVars, taskVars>>

\* Channel.send_typing()
SendTyping ==
    /\ LET failure ==
           IF ~HasMessages(channel_type) THEN "CuriousError"
           ELSE IF MeLacks(SEND_MESSAGES) THEN "PermissionsError"
           ELSE "none"
       IN Finish("send_typing", None, failure, "send_typing")
    /\ UNCHANGED <<ow_received, channel_type>>
    /\ UNCHANGED <<guildVars, channelVars, historyVars, deleteVars, taskVars>>

\* messages.get_history(limit=limit): the check, then a HistoryIterator is
\* handed back; no request is made before it is iterated.
GetHistory(limit) ==
    /\ call' = IF MeLacks(READ_MESSAGE_HISTORY)
               THEN Call("get_history", limit, Raises("PermissionsError"))
               ELSE Call("get_history", limit, Value(limit))
    /\ transport' = <<>>
    /\ UNCHANGED <<ow_received, channel_type>>
    /\ UNCHANGED <<guildVars, channelVars, historyVars, deleteVars, taskVars>>

\* messages.get(message_id): the check, the message cache, else a request
\* whose reply is the message or "unknown message".
Get(id, cached) ==
    /\ IF MeLacks(READ_MESSAGE_HISTORY)
       THEN /\ call' = Call("get", id, Raises("PermissionsError"))
            /\ transport' = <<>>
       ELSE IF cached
       THEN /\ call' = Call("get", id, Value(id))
            /\ transport' = <<>>
       ELSE /\ call' \in {Call("get", id, Value(id)),
                           Call("get", id, Raises("CuriousError"))}
            /\ transport' = <<Request("get_message", id)>>
    /\ UNCHANGED <<ow_received, channel_type>>
    /\ UNCHANGED <<guildVars, channelVars, historyVars, deleteVars, taskVars>>

\* Message.delete() on a message with the given id and author; the test
\* compares the message's own id with the acting user's id, not the
\* author's.
MessageDelete(id, author) ==
    /\ Finish("delete", [id |-> id, author |-> author],
              IF MessageDeleteRefused THEN "PermissionsError" ELSE "none",
              "delete_message")
    /\ UNCHANGED <<ow_received, channel_type>>
    /\ UNCHANGED <<guildVars, channelVars, historyVars, deleteVars, taskVars>>

(***************************************************************************)
(* Guild moderation: kick, ban, add_roles, remove_roles, change_nickname   *)
(***************************************************************************)
KICK_MEMBERS == 1

BAN_MEMBERS == 2

CHANGE_NICKNAME == 26

MANAGE_NICKNAMES == 27

MANAGE_ROLES == 28

\* "len(new_nickname) > 32"
MAX_NICKNAME == 32

\* Members of the guild besides the acting one, and the one that owns it.
OtherMemberIds == {8, 10}

OwnerId == 8

\* A member object that belongs to another guild.
ForeignMemberId == 12

\* Role.position: the everyone role is the lowest, a larger id ranks higher.
Position(r) == r

\* Member.top_role: the highest-ranking role held, the everyone role if the
\* member holds none.
TopRole(m) ==
    LET held == {GuildId} \cup members[m].roles
    IN CHOOSE r \in held : \A q \in held : Position(q) <= Position(r)

\* Member.guild_permissions: the baselines of the held roles OR-ed together.
GuildPermissions(m) ==
    IF ADMINISTRATOR \in BaselinePermissions(m)
    THEN Permissions_all
    ELSE BaselinePermissions(m)

\* Faulty variant: only a role strictly above refuses.
AtOrAbove_Strict(r, top) == Position(r) > Position(top)

\* "victim.top_role >= self.me.top_role", "_r >= self.me.top_role"
AtOrAbove(r, top) == Position(r) >= Position(top)

\* The argument of a moderation call: the member (kind tells a Member
\* object from a User from anything else), the roles and the length of the
\* nickname handed in.
Target(m, kind, rs, nick) ==
    [member |-> m, kind |-> kind, roles |-> rs, nick |-> nick]

\* Like Finish, with a request the remote side may refuse.
FinishWith(name, arg, failure, request, resp) ==
    IF failure # "none"
    THEN /\ call' = Call(name, arg, Raises(failure))
         /\ transport' = <<>>
    ELSE /\ call' = IF resp = "ok" THEN Call(name, arg, Value(arg))
                    ELSE Call(name, arg, Raises(resp))
         /\ transport' = <<Request(request, arg)>>

\* Guild.kick(victim)
Kick(v, resp) ==
    /\ LET failure ==
           IF KICK_MEMBERS \notin GuildPermissions(Me) THEN "PermissionsError"
           ELSE IF v \notin DOMAIN members THEN "ValueError"
           ELSE IF AtOrAbove(TopRole(v), TopRole(Me)) THEN "HierachyError"
           ELSE "none"
       IN FinishWith("kick", Target(v, "member", {}, 0), failure, "kick_member", resp)
    /\ UNCHANGED <<ow_received, channel_type>>
    /\ UNCHANGED <<guildVars, channelVars, historyVars, deleteVars, taskVars>>

\* Guild.ban(victim)
Ban(v, kind, resp) ==
    /\ LET failure ==
           IF BAN_MEMBERS \notin GuildPermissions(Me) THEN "PermissionsError"
           ELSE IF kind = "user" THEN "none"
           ELSE IF kind # "member" THEN "TypeError"
           ELSE IF v = OwnerId THEN "HierachyError"
           ELSE IF v \notin DOMAIN members THEN "ValueError"
           ELSE IF AtOrAbove(TopRole(v), TopRole(Me)) THEN "HierachyError"
           ELSE "none"
       IN FinishWith("ban", Target(v, kind, {}, 0), failure, "ban_user", resp)
    /\ UNCHANGED <<ow_received, channel_type>>
    /\ UNCHANGED <<guildVars, channelVars, historyVars, deleteVars, taskVars>>

\* Guild.add_roles(member, *roles)
AddRoles(m, rs, resp) ==
    /\ LET failure ==
           IF MANAGE_ROLES \notin GuildPermissions(Me) THEN "PermissionsError"
           ELSE IF \E r \in rs : AtOrAbove(r, TopRole(Me)) THEN "HierachyError"
           ELSE "none"
       IN FinishWith("add_roles", Target(m, "member", rs, 0), failure,
                     "modify_member_roles", resp)
    /\ UNCHANGED <<ow_received, channel_type>>
    /\ UNCHANGED <<guildVars, channelVars, historyVars, deleteVars, taskVars>>

\* Guild.remove_roles(member, *roles)
RemoveRoles(m, rs, resp) ==
    /\ LET failure ==
           IF MANAGE_ROLES \notin GuildPermissions(Me) THEN "PermissionsError"
           ELSE IF \E r \in rs : AtOrAbove(r, TopRole(Me)) THEN "HierachyError"
           ELSE "none"
       IN FinishWith("remove_roles", Target(m, "member", rs, 0), failure,
                     "modify_member_roles", resp)
    /\ UNCHANGED <<ow_received, channel_type>>
    /\ UNCHANGED <<guildVars, channelVars, historyVars, deleteVars, taskVars>>

\* Guild.change_nickname(member, new_nickname); the nickname is given by
\* its length.
ChangeNickname(m, nick, resp) ==
    /\ LET bit     == IF m = Me THEN CHANGE_NICKNAME ELSE MANAGE_NICKNAMES
           failure ==
               IF bit \notin GuildPermissions(Me) THEN "PermissionsError"
               ELSE IF AtOrAbove(TopRole(m), TopRole(Me)) /\ m # Me
               THEN "HierachyError"
               ELSE IF nick > MAX_NICKNAME THEN "ValueError"
               ELSE "none"
       IN FinishWith("change_nickname", Target(m, "member", {}, nick), failure,
                     "change_nickname", resp)
    /\ UNCHANGED <<ow_received, channel_type>>
    /\ UNCHANGED <<guildVars, channelVars, historyVars, deleteVars, taskVars>>

(***************************************************************************)
(* add_roles, remove_roles, change_nickname as tasks: the caller, the      *)
(* listener it spawns and the gateway task that dispatches member_update   *)
(***************************************************************************)
\* What the checks ahead of the listener refuse.
Refusal(name, m, rs, nick) ==
    IF name \in {"add_roles", "remove_roles"}
    THEN IF MANAGE_ROLES \notin GuildPermissions(Me) THEN "PermissionsError"
         ELSE IF \E r \in rs : AtOrAbove(r, TopRole(Me)) THEN "HierachyError"
         ELSE "none"
    ELSE IF (IF m = Me THEN CHANGE_NICKNAME ELSE MANAGE_NICKNAMES)
                \notin GuildPermissions(Me)
         THEN "PermissionsError"
         ELSE IF AtOrAbove(TopRole(m), TopRole(Me)) /\ m # Me THEN "HierachyError"
         ELSE IF nick > MAX_NICKNAME THEN "ValueError"
         ELSE "none"

\* The Transport request of the call.
RequestOf(name) ==
    IF name = "change_nickname" THEN "change_nickname" ELSE "modify_member_roles"

\* A member_update event: the member after the update.
MemberUpdate(id, rs, guild) == [id |-> id, roles |-> rs, guild |-> guild]

NoUpdate == MemberUpdate(None, {}, None)

\* The _listener predicates of the three calls.
Accepts(name, arg, ev) ==
    CASE name = "add_roles" ->
            ev.id = arg.member /\ arg.roles \subseteq ev.roles
      [] name = "remove_roles" ->
            ev.id = arg.member /\ arg.roles \cap ev.roles = {}
      [] name = "change_nickname" ->
            ev.guild = GuildId /\ ev.id = arg.member

\* The member_update the remote side sends once it has applied the request:
\* role_ids = member.roles + roles, to_keep = member.roles - roles.
UpdateCausedBy(name, arg) ==
    CASE name = "add_roles" ->
            MemberUpdate(arg.member, members[arg.member].roles \cup arg.roles,
                         GuildId)
      [] name = "remove_roles" ->
            MemberUpdate(arg.member, members[arg.member].roles \ arg.roles,
                         GuildId)
      [] name = "change_nickname" ->
            MemberUpdate(arg.member, members[arg.member].roles, GuildId)

\* An entry of the scheduler's queue: a runnable task; for the gateway task
\* the event it is about to dispatch and whether that event arrived after
\* the request had been issued.
Runnable(task, ev, late) == [task |-> task, ev |-> ev, late |-> late]

CallerTask == Runnable("caller", NoUpdate, FALSE)

ListenerTask == Runnable("listener", NoUpdate, FALSE)

Pending == [kind |-> "pending", value |-> None]

\* Faulty variant: the failure is re-raised without cancelling the listener.
CancelListener_Skip(state) == state

\* "await listener.cancel()": a task that has not finished is cancelled.
CancelListener(state) == IF state = "done" THEN "done" ELSE "cancelled"

\* The call up to "listener = await curio.spawn(...)": the checks, then the
\* listener task is made runnable behind every task already runnable; the
\* caller either goes straight on or is rescheduled behind it.
BeginCall(name, m, rs, nick) ==
    /\ task_pc = "idle"
    /\ LET arg     == Target(m, "member", rs, nick)
           failure == Refusal(name, m, rs, nick)
       IN IF failure # "none"
          THEN /\ call' = Call(name, arg, Raises(failure))
               /\ task_pc' = "raised"
               /\ UNCHANGED <<listener, run_queue>>
          ELSE /\ call' = Call(name, arg, Pending)
               /\ task_pc' = "spawned"
               /\ listener' = "ready"
               /\ run_queue' \in {<<CallerTask>> \o run_queue \o <<ListenerTask>>,
                                  run_queue \o <<ListenerTask, CallerTask>>}
    /\ transport' = <<>>
    /\ UNCHANGED <<response, observed, missed, ow_received, channel_type>>
    /\ UNCHANGED <<guildVars, channelVars, historyVars, deleteVars>>

\* The scheduler runs the caller: it issues the request and suspends; or,
\* resumed by the answer, cancels the listener and re-raises, or joins the
\* listener; or, resumed by the listener's end, returns the member.
RunCaller ==
    /\ run_queue # <<>>
    /\ Head(run_queue).task = "caller"
    /\ CASE task_pc = "spawned" ->
                /\ transport' = <<Request(RequestOf(call.name), call.arg)>>
                /\ task_pc' = "awaiting"
                /\ run_queue' = Tail(run_queue)
                /\ UNCHANGED <<call, listener>>
         [] task_pc = "awaiting" /\ response # "ok" ->
                /\ listener' = CancelListener(listener)
                /\ run_queue' = SelectSeq(Tail(run_queue),
                                          LAMBDA e : e.task # "listener")
                /\ task_pc' = "raised"
                /\ call' = Call(call.name, call.arg, Raises(response))
                /\ UNCHANGED transport
         [] task_pc = "awaiting" /\ response = "ok" /\ listener # "done" ->
                /\ task_pc' = "joining"
                /\ run_queue' = Tail(run_queue)
                /\ UNCHANGED <<call, listener, transport>>
         [] task_pc \in {"awaiting", "joining"} /\ response = "ok"
                                                /\ listener = "done" ->
                /\ task_pc' = "returned"
                /\ call' = Call(call.name, call.arg, Value(call.arg))
                /\ run_queue' = Tail(run_queue)
                /\ UNCHANGED <<listener, transport>>
    /\ UNCHANGED <<response, observed, missed, ow_received, channel_type>>
    /\ UNCHANGED <<guildVars, channelVars, historyVars, deleteVars>>

\* The scheduler runs the listener task for the first time: wait_for
\* registers the predicate and suspends.
RunListener ==
    /\ run_queue # <<>>
    /\ Head(run_queue).task = "listener"
    /\ listener' = "listening"
    /\ run_queue' = Tail(run_queue)
    /\ UNCHANGED <<task_pc, response, observed, missed, callVars>>
    /\ UNCHANGED <<guildVars, channelVars, historyVars, deleteVars>>

\* The scheduler runs the gateway task: it dispatches one member_update to
\* the registered listeners; a listener whose predicate accepts it ends,
\* which makes a caller that joins it runnable.
RunGateway ==
    /\ run_queue # <<>>
    /\ Head(run_queue).task = "gateway"
    /\ LET e       == Head(run_queue)
           accepts == call.name # "none" /\ Accepts(call.name, call.arg, e.ev)
       IN IF listener = "listening" /\ accepts
          THEN /\ listener' = "done"
               /\ observed' = Append(observed, e.ev)
               /\ run_queue' = Tail(run_queue) \o
                                  (IF task_pc = "joining" THEN <<CallerTask>>
                                   ELSE <<>>)
               /\ UNCHANGED missed
          ELSE /\ missed' = IF listener = "ready" /\ accepts /\ e.late
                            THEN Append(missed, e.ev) ELSE missed
               /\ run_queue' = Tail(run_queue)
               /\ UNCHANGED <<listener, observed>>
    /\ UNCHANGED <<task_pc, response, callVars>>
    /\ UNCHANGED <<guildVars, channelVars, historyVars, deleteVars>>

\* The remote side answers the request: the answer wakes the caller, and an
\* applied request that changed the member is followed or preceded by the
\* member_update it caused, which wakes the gateway task.
RemoteAnswers(resp, emits) ==
    /\ task_pc = "awaiting"
    /\ response = "none"
    /\ response' = resp
    /\ LET g == Runnable("gateway", UpdateCausedBy(call.name, call.arg), TRUE)
       IN IF resp = "ok" /\ emits
          THEN run_queue' \in {run_queue \o <<CallerTask, g>>,
                               run_queue \o <<g, CallerTask>>}
          ELSE run_queue' = run_queue \o <<CallerTask>>
    /\ UNCHANGED <<task_pc, listener, observed, missed, callVars>>
    /\ UNCHANGED <<guildVars, channelVars, historyVars, deleteVars>>

\* A member_update somebody else caused reaches the gateway task.
ForeignUpdate(ev) ==
    /\ task_pc \in {"idle", "spawned", "awaiting", "joining"}
    /\ \A i \in DOMAIN run_queue : run_queue[i].task # "gateway"
    /\ run_queue' = Append(run_queue, Runnable("gateway", ev, transport # <<>>))
    /\ UNCHANGED <<task_pc, listener, response, observed, missed, callVars>>
    /\ UNCHANGED <<guildVars, channelVars, historyVars, deleteVars>>

(***************************************************************************)
(* Idle values of the parts a specification does not exercise              *)
(***************************************************************************)
NoChunkLog == [started |-> FALSE, count |-> 0, applied |-> 0]

HistoryIdle ==
    /\ chan_msgs = 0
    /\ max_messages = 0
    /\ before = None
    /\ after = None
    /\ last_message_id = None
    /\ current_count = 0
    /\ messages = <<>>
    /\ yielded = <<>>
    /\ fetches = <<>>
    /\ it_state = "idle"

DeleteIdle ==
    /\ op = "none"
    /\ pc = "start"
    /\ fallback_from_bulk = FALSE
    /\ purge_check = "all"
    /\ to_delete = <<>>
    /\ minimum_allowed = 0
    /\ can_bulk_delete = TRUE
    /\ chunks_done = 0
    /\ delete_calls = <<>>
    /\ outcome = NoOutcome

NoCall == [name |-> "none", arg |-> None, kind |-> "none", value |-> None]

CallIdle ==
    /\ ow_received = <<>>
    /\ call = NoCall
    /\ transport = <<>>
    /\ channel_type = "text"

TaskIdle ==
    /\ task_pc = "idle"
    /\ listener = "none"
    /\ run_queue = <<>>
    /\ response = "none"
    /\ observed = <<>>
    /\ missed = <<>>

ChunkingIdle ==
    /\ unavailable = FALSE
    /\ member_count = 0
    /\ chunks_left = 0
    /\ finished_chunking = FALSE
    /\ wait_state = [t \in Tasks |-> "idle"]
    /\ chunk_log = NoChunkLog
    /\ channels = <<>>
    /\ emojis = <<>>
    /\ objects_made = Cardinality(DOMAIN members)
    /\ last_event = NoEvent

(***************************************************************************)
(* SpecPerm: effective_permissions over every guild and overwrite table    *)
(***************************************************************************)
\* Role baselines a snapshot can carry.
BaselineSets == SUBSET PermBits

\* (allow, deny) pairs over the bits bs.
OverwriteValues(bs) == [allow : SUBSET bs, deny : SUBSET bs]

Principals == AllRoleIds \cup MemberIds

\* The resolver works bit by bit: a table is drawn over one bit at a time,
\* for any set of principals.
OverwriteTables ==
    UNION {[D -> OverwriteValues({b})] : D \in SUBSET Principals, b \in PermBits}

\* Member records never list the everyone role among a member's roles.
MemberStates == [roles : SUBSET RoleIds, nick : {"a"}, oid : {1}]

InitPerm ==
    /\ roles \in [AllRoleIds -> BaselineSets]
    /\ members \in [MemberIds -> MemberStates]
    /\ channel_guild_id \in {None, GuildId}
    /\ guild_cached = TRUE
    /\ overwrites \in IF channel_guild_id = None THEN {<<>>} ELSE OverwriteTables
    /\ perm_result = NoResult
    /\ ChunkingIdle
    /\ HistoryIdle
    /\ DeleteIdle
    /\ CallIdle
    /\ TaskIdle

NextPerm ==
    \/ \E m \in MemberIds : QueryEffectivePermissions(m)
    \/ GuildRemoved

SpecPerm == InitPerm /\ [][NextPerm]_vars

(***************************************************************************)
(* Claims on effective_permissions (checked under SpecPerm)                *)
(***************************************************************************)
\* The member the last query was about, and what the query returned.
QueriedInGuild == perm_result.kind = "ok" /\ ChannelHasGuild

\* The everyone role or a role the member holds carries the administrator bit.
HoldsAdministrator(m) ==
    \E r \in {GuildId} \cup members[m].roles : ADMINISTRATOR \in roles[r]

\* C1: in a guild channel, a member for whom the everyone role or any held
\* role has the administrator bit in its baseline gets the all-permissions
\* bitfield, whatever overwrites (deny bits included) the channel carries.
C1_AdministratorGetsAll ==
    (QueriedInGuild /\ HoldsAdministrator(perm_result.member))
        => perm_result.bits = Permissions_all

\* C1 witness: an administrator through a held role was resolved on a channel
\* whose member overwrite denies send_messages and whose everyone overwrite
\* is present too.
C1_Witness ==
    /\ QueriedInGuild
    /\ ADMINISTRATOR \notin roles[GuildId]
    /\ HoldsAdministrator(perm_result.member)
    /\ perm_result.member \in DOMAIN overwrites
    /\ SEND_MESSAGES \in overwrites[perm_result.member].deny
    /\ GuildId \in DOMAIN overwrites
    /\ SEND_MESSAGES \in perm_result.bits

\* The tiers of one resolution, innermost first, each as (allow, deny); the
\* baseline allows what it grants and "denies" nothing (it is the seed).
RoleAggregate(m) ==
    LET held == members[m].roles \cap DOMAIN overwrites
    IN [allow |-> UNION {overwrites[r].allow : r \in held},
        deny  |-> UNION {overwrites[r].deny : r \in held}]

NoOverwrite == [allow |-> {}, deny |-> {}]

TierOf(m, t) ==
    CASE t = 1 -> IF GuildId \in DOMAIN overwrites THEN overwrites[GuildId]
                  ELSE NoOverwrite
      [] t = 2 -> RoleAggregate(m)
      [] t = 3 -> IF m \in DOMAIN overwrites THEN overwrites[m] ELSE NoOverwrite

Mentions(m, t, b) == b \in TierOf(m, t).allow \cup TierOf(m, t).deny

\* The outermost overwrite tier that mentions b; 0 when none does.
OutermostTier(m, b) ==
    IF Mentions(m, 3, b) THEN 3
    ELSE IF Mentions(m, 2, b) THEN 2
    ELSE IF Mentions(m, 1, b) THEN 1
    ELSE 0

GrantedByBaseline(m, b) ==
    \E r \in {GuildId} \cup members[m].roles : b \in roles[r]

\* C2: for a non-administrator in a guild channel every bit carries the value
\* of the outermost tier that mentions it (member overwrite over aggregated
\* role overwrites over the everyone overwrite over the role baselines); a
\* tier that both allows and denies the bit is not judged here.
C2_OutermostTierWins ==
    (QueriedInGuild /\ ~HoldsAdministrator(perm_result.member)) =>
        \A b \in Permissions_all :
            LET m == perm_result.member
                t == OutermostTier(m, b)
            IN IF t = 0
               THEN (b \in perm_result.bits) <=> GrantedByBaseline(m, b)
               ELSE /\ (b \in TierOf(m, t).allow /\ b \notin TierOf(m, t).deny)
                          => b \in perm_result.bits
                    /\ (b \in TierOf(m, t).deny /\ b \notin TierOf(m, t).allow)
                          => b \notin perm_result.bits

\* C2 witness: send_messages is granted by the baseline, denied by the
\* everyone overwrite, allowed by a held role's overwrite and denied by the
\* member overwrite; the result lacks it.
C2_Witness ==
    /\ QueriedInGuild
    /\ ~HoldsAdministrator(perm_result.member)
    /\ GrantedByBaseline(perm_result.member, SEND_MESSAGES)
    /\ GuildId \in DOMAIN overwrites
    /\ overwrites[GuildId] = [allow |-> {}, deny |-> {SEND_MESSAGES}]
    /\ RoleAggregate(perm_result.member) = [allow |-> {SEND_MESSAGES}, deny |-> {}]
    /\ perm_result.member \in DOMAIN overwrites
    /\ overwrites[perm_result.member] = [allow |-> {}, deny |-> {SEND_MESSAGES}]
    /\ SEND_MESSAGES \notin perm_result.bits

\* C33: within the outermost tier that mentions a bit the allow wins over the
\* deny, so a bit both allowed and denied in that tier ends up set; in the
\* role tier allow and deny are aggregated over all held roles first, so a
\* bit one held role allows is set although another held role denies it,
\* unless the member overwrite mentions the bit.
C33_AllowBeatsDenyWithinTier ==
    (QueriedInGuild /\ ~HoldsAdministrator(perm_result.member)) =>
        \A b \in Permissions_all :
            LET m == perm_result.member
                t == OutermostTier(m, b)
            IN /\ (t # 0 /\ b \in TierOf(m, t).allow) => b \in perm_result.bits
               /\ ( /\ \E r \in members[m].roles \cap DOMAIN overwrites :
                           b \in overwrites[r].allow
                    /\ ~Mentions(m, 3, b) ) => b \in perm_result.bits

\* C33 witness: send_messages is not granted by any baseline, one held role's
\* overwrite allows it and another held role's overwrite denies it, the
\* everyone overwrite both allows and denies it, no member overwrite exists;
\* the result has the bit.
C33_Witness ==
    /\ QueriedInGuild
    /\ ~HoldsAdministrator(perm_result.member)
    /\ ~GrantedByBaseline(perm_result.member, SEND_MESSAGES)
    /\ perm_result.member \notin DOMAIN overwrites
    /\ GuildId \in DOMAIN overwrites
    /\ overwrites[GuildId] = [allow |-> {SEND_MESSAGES}, deny |-> {SEND_MESSAGES}]
    /\ \E r1, r2 \in members[perm_result.member].roles \cap DOMAIN overwrites :
          /\ r1 < r2
          /\ overwrites[r1] = [allow |-> {SEND_MESSAGES}, deny |-> {}]
          /\ overwrites[r2] = [allow |-> {}, deny |-> {SEND_MESSAGES}]
    /\ SEND_MESSAGES \in perm_result.bits

\* C3: on a channel with no guild the result is the fixed bitfield 515136
\* (bits 6, 10, 11, 12, 14..18) for every member and overwrite table; it has
\* send_messages and no administrative bit.
C3_NoGuildDefault ==
    (perm_result.kind = "ok" /\ ~ChannelHasGuild) =>
        /\ perm_result.bits = {6, 10, 11, 12, 14, 15, 16, 17, 18}
        /\ SEND_MESSAGES \in perm_result.bits
        /\ perm_result.bits \cap AdministrativeBits = {}

\* C3 witness: a member holding an administrator role was resolved on a
\* channel whose guild no longer resolves and whose table still has entries.
C3_Witness ==
    /\ perm_result.kind = "ok"
    /\ ~ChannelHasGuild
    /\ DOMAIN overwrites # {}
    /\ HoldsAdministrator(perm_result.member)
    /\ SEND_MESSAGES \in perm_result.bits

(***************************************************************************)
(* SpecChunk: snapshots, chunking cycles, member chunks and waiters        *)
(***************************************************************************)
\* member_count values a snapshot can carry: none, one chunk, two, three.
MemberCounts == {0, 1, CHUNK_SIZE, CHUNK_SIZE + 1, 2 * CHUNK_SIZE + 1}

\* Member records of a chunk or snapshot.
MemberRecords ==
    [id : MemberIds, roles : {{}, {2}, {2} \cup UnknownRoleIds}, nick : {"a", "b"}]

MemberLists == {<<>>} \cup {<<rec>> : rec \in MemberRecords}

\* The member chunks of a chunking cycle: an empty one and one with a member.
ChunkLists == {<<>>, <<[id |-> 4, roles |-> {2}, nick |-> "a"]>>}

\* Role tables of a snapshot: the everyone role alone or with role 2.
SnapshotRoles == {[r \in D |-> {}] : D \in {{GuildId}, {GuildId, 2}}}

Snapshots ==
    [unavailable : {FALSE}, member_count : MemberCounts, roles : SnapshotRoles,
     members : {<<>>, <<[id |-> 4, roles |-> {2}, nick |-> "a"]>>},
     channels : {{}}, emojis : {{}}]
    \cup [unavailable : {TRUE}, member_count : {0}, roles : {<<>>},
          members : {<<>>}, channels : {{}}, emojis : {{}}]

\* Guild.__init__ on a stub that carries the id only.
InitChunk ==
    /\ roles = <<>>
    /\ members = <<>>
    /\ ChunkingIdle
    /\ channel_guild_id = GuildId
    /\ guild_cached = TRUE
    /\ overwrites = <<>>
    /\ perm_result = NoResult
    /\ HistoryIdle
    /\ DeleteIdle
    /\ CallIdle
    /\ TaskIdle

NextChunk ==
    \/ StartChunking
    \/ \E t \in Tasks : WaitUntilChunked(t)
    \/ \E recs \in ChunkLists : HandleMemberChunk(recs)
    \/ \E data \in Snapshots : FromGuildCreate(data)

SpecChunk == InitChunk /\ [][NextChunk]_vars

\* The chunks the cycle started last has to receive: the least n with
\* 1000 * n >= member_count as of start_chunking.
CycleChunks == CHOOSE n \in 0..MaxChunkEvents : /\ CHUNK_SIZE * n >= chunk_log.count
                                                /\ \A k \in 0..(n - 1) : CHUNK_SIZE * k < chunk_log.count

\* C4: after start_chunking() with member_count = M, once ceil(M/1000)
\* member chunks have been applied the signal is set (every suspended waiter
\* is released, later waits return at once), and while fewer have been
\* applied it is pending and nobody waiting has been let through.
C4_ReleasedAfterAllChunks ==
    chunk_log.started =>
        /\ chunk_log.applied >= CycleChunks =>
              /\ finished_chunking
              /\ \A t \in Tasks : wait_state[t] # "waiting"
        /\ chunk_log.applied < CycleChunks => ~finished_chunking

\* C30: whenever the completion signal is set no chunk is outstanding: the
\* counter is 0 and, in a chunking cycle, the member chunks applied are as
\* many as the cycle expects; and a set signal becomes pending again only in
\* a start_chunking step.
C30_SignalOnlyWhenNoChunkOutstanding ==
    [][/\ finished_chunking' =>
            /\ chunks_left' = 0
            /\ chunk_log'.started => chunk_log'.applied >= CycleChunks'
       /\ (finished_chunking /\ ~finished_chunking') =>
            /\ chunk_log'.started
            /\ chunk_log'.applied = 0
            /\ chunks_left' = ChunksFor(member_count)]_vars

\* The number of pages of at most 1000 that hold n members.
PagesHolding(n) ==
    CHOOSE k \in 0..(n + 1) :
        /\ 1000 * k >= n
        /\ k > 0 => 1000 * (k - 1) < n

\* C31: a start_chunking step leaves the completion signal pending and the
\* chunk counter at ceil(member_count / 1000) (0 for 0 members, 1 for
\* 1..1000, 2 for 1001..2000), whether the signal was pending or set and
\* whatever the counter was before.
C31_StartChunkingResets ==
    [][StartChunking =>
          /\ ~finished_chunking'
          /\ chunks_left' = PagesHolding(member_count)
          /\ member_count = 0 => chunks_left' = 0
          /\ member_count \in 1..1000 => chunks_left' = 1
          /\ member_count \in 1001..2000 => chunks_left' = 2]_vars

\* C31 witness: start_chunking was called for 1001 members after an earlier
\* cycle had completed and released a waiter; two chunks are expected and
\* the signal is pending.
C31_Witness ==
    /\ chunk_log.started
    /\ chunk_log.applied = 0
    /\ member_count = 1001
    /\ chunks_left = 2
    /\ ~finished_chunking
    /\ \E t \in Tasks : wait_state[t] = "released"

\* C37: the chunk counter is never negative and never above the number of
\* chunks the most recent start_chunking expected (0 before the first one);
\* a member chunk takes exactly one off it while it is at least 1 and leaves
\* it at 0 when it is 0.
C37_ChunkCounterBounds ==
    [][/\ 0 <= chunks_left'
       /\ chunks_left' <= CycleChunks'
       /\ (\E recs \in ChunkLists : HandleMemberChunk(recs)) =>
             /\ chunks_left >= 1 => chunks_left' = chunks_left - 1
             /\ chunks_left = 0 => chunks_left' = 0]_vars

\* C37 witness: a cycle expecting two chunks has received a third, surplus
\* chunk; the counter is 0.
C37_Witness ==
    /\ chunk_log.started
    /\ chunk_log.count = CHUNK_SIZE + 1
    /\ chunk_log.applied = 3
    /\ chunks_left = 0

\* C38: applying a guild snapshot, available or not, changes neither the
\* chunk counter nor the completion signal.
C38_SnapshotLeavesChunkingAlone ==
    [][(\E data \in Snapshots : FromGuildCreate(data)) =>
            /\ chunks_left' = chunks_left
            /\ finished_chunking' = finished_chunking]_vars

(***************************************************************************)
(* SpecHistory: one traversal of a HistoryIterator by `async for`          *)
(***************************************************************************)
\* The largest positive maximum item count.
MaxLimit == 250

ChannelSizes == {0, 1, 2, PAGE_MAX, PAGE_MAX + 1, MaxChannelMsgs}

LimitValues == {-1, 0, 1, 2, 3, PAGE_MAX, PAGE_MAX + 1, PAGE_MAX + 2, MaxLimit}

\* Anchors: none, the newest message's id + 1 (before) or the oldest
\* message's id (after), and a message in the middle of the channel.
BeforeAnchors(n) == {None, n + 1, (n \div 2) + 1}

AfterAnchors(n) == {None, 1, (n \div 2) + 1}

\* HistoryIterator.__init__
InitHistory ==
    /\ chan_msgs \in ChannelSizes
    /\ max_messages \in LimitValues
    /\ before \in BeforeAnchors(chan_msgs)
    /\ after \in AfterAnchors(chan_msgs)
    /\ last_message_id = IF before # None THEN before ELSE after
    /\ current_count = 0
    /\ messages = <<>>
    /\ yielded = <<>>
    /\ fetches = <<>>
    /\ it_state = "active"
    /\ roles = <<>>
    /\ members = <<>>
    /\ ChunkingIdle
    /\ channel_guild_id = None
    /\ guild_cached = TRUE
    /\ overwrites = <<>>
    /\ perm_result = NoResult
    /\ DeleteIdle
    /\ CallIdle
    /\ TaskIdle

NextHistory == Anext

SpecHistory == InitHistory /\ [][NextHistory]_vars

Stopped == it_state = "stopped"

StrictlyDecreasing(s) == \A i \in 1..(Len(s) - 1) : s[i] > s[i + 1]

StrictlyIncreasing(s) == \A i \in 1..(Len(s) - 1) : s[i] < s[i + 1]

\* Messages of the channel older than the before anchor.
OlderThanBefore == Max(Min(before - 1, chan_msgs), 0)

\* C5: a cursor built with before = X and a positive maximum N over a
\* channel with at least N messages older than X yields exactly N messages
\* before it ends, in strictly decreasing id order.
C5_YieldsExactlyN ==
    (Stopped /\ before # None /\ max_messages > 0
             /\ OlderThanBefore >= max_messages)
        => /\ Len(yielded) = max_messages
           /\ StrictlyDecreasing(yielded)

\* C6: every page request asks for min(100, maximum - messages yielded so
\* far) when the cursor is bounded and for 100 when it is unbounded, in the
\* before and in the after direction.
C6_RequestSizes ==
    \A i \in DOMAIN fetches :
        fetches[i].limit = IF max_messages > 0
                           THEN Min(100, max_messages - fetches[i].yielded)
                           ELSE 100

\* C7: over a channel with no messages the cursor yields nothing and ends
\* after exactly one page fetch, for every maximum and either anchor kind.
C7_EmptyChannelOneFetch ==
    (Stopped /\ chan_msgs = 0) => (yielded = <<>> /\ Len(fetches) = 1)

\* C8: with a non-positive maximum (0 or negative) the cursor is unbounded:
\* it ends only because a fetched page was empty.
C8_NonPositiveUnbounded ==
    (Stopped /\ max_messages <= 0)
        => (fetches # <<>> /\ fetches[Len(fetches)].got = 0)

\* C9: a cursor with neither anchor and maximum N over a channel holding
\* more than one page does not stop after the first page: it ends only
\* when N messages were yielded or the channel's history is exhausted.
C9_UnanchoredWalksOn ==
    (Stopped /\ before = None /\ after = None
             /\ max_messages > PAGE_MAX + 1 /\ chan_msgs > PAGE_MAX)
        => /\ Len(yielded) > PAGE_MAX
           /\ Len(yielded) = Min(max_messages, chan_msgs)

\* C10: a cursor with only an after anchor yields oldest first: the buffer
\* holds each page in increasing id order, the anchor is the last yielded
\* id, and the ids yielded over all pages are strictly increasing and newer
\* than the anchor given.
C10_AfterYieldsOldestFirst ==
    (before = None /\ after # None) =>
        /\ StrictlyIncreasing(yielded \o messages)
        /\ \A i \in DOMAIN yielded : yielded[i] > after
        /\ yielded # <<>> => last_message_id = yielded[Len(yielded)]

\* C10 witness: an after-only cursor has yielded more than one page.
C10_Witness ==
    /\ before = None
    /\ after # None
    /\ Len(fetches) >= 2
    /\ Len(yielded) > PAGE_MAX
    /\ yielded[1] = after + 1

(***************************************************************************)
(* SpecFill: a HistoryIterator whose consumer advances it and also calls   *)
(* fill_messages() itself                                                  *)
(***************************************************************************)
\* The most messages of a channel whose cursor is also filled by hand.
MaxFillMsgs == 5

FillChannelSizes == {0, 2, MaxFillMsgs}

FillLimitValues == {-1, 2, MaxFillMsgs - 1}

InitFill ==
    /\ chan_msgs \in FillChannelSizes
    /\ max_messages \in FillLimitValues
    /\ before \in BeforeAnchors(chan_msgs)
    /\ after \in AfterAnchors(chan_msgs)
    /\ last_message_id = IF before # None THEN before ELSE after
    /\ current_count = 0
    /\ messages = <<>>
    /\ yielded = <<>>
    /\ fetches = <<>>
    /\ it_state = "active"
    /\ roles = <<>>
    /\ members = <<>>
    /\ ChunkingIdle
    /\ channel_guild_id = None
    /\ guild_cached = TRUE
    /\ overwrites = <<>>
    /\ perm_result = NoResult
    /\ DeleteIdle
    /\ CallIdle
    /\ TaskIdle

NextFill ==
    \/ Anext
    \/ FillMessagesCall

SpecFill == InitFill /\ [][NextFill]_vars

\* Every id that was ever placed in the buffer: those handed out already,
\* then those still buffered.
EverBuffered == yielded \o messages

NoRepeats(s) == \A i, j \in DOMAIN s : i # j => s[i] # s[j]

\* C11: under any sequence of advances and explicit fill_messages() calls,
\* no message is placed in the buffer twice.
C11_NeverBufferedTwice == NoRepeats(EverBuffered)

(***************************************************************************)
(* SpecDelete: one purge or bulk_delete call on a channel                  *)
(***************************************************************************)
DeleteChannelSizes == {0, 2, PAGE_MAX}

PurgeLimits == {-1, 3, DEFAULT_LIMIT}

\* Cutoffs: no message is too old, message 1 is, the first 101 are.
MinimumAllowedValues == {1, 2, PAGE_MAX + 2}

Responses == {"ok", "Forbidden"}

Ascending(n) == [i \in 1..n |-> i]

\* Message lists a caller hands to bulk_delete.
BulkLists ==
    UNION {{Ascending(n), Reverse(Ascending(n))} :
            n \in {0, 1, 2, BATCH_MAX, BATCH_MAX + 1, MaxChannelMsgs}}

\* What the role table grants the acting member in the channel.
MePermissionSets == SUBSET {MANAGE_MESSAGES, READ_MESSAGE_HISTORY}

InitDelete ==
    /\ chan_msgs \in DeleteChannelSizes
    /\ channel_guild_id \in {None, GuildId}
    /\ guild_cached = TRUE
    /\ roles \in IF channel_guild_id = None THEN {<<>>}
                 ELSE {[r \in {GuildId} |-> b] : b \in MePermissionSets}
    /\ members = IF channel_guild_id = None THEN <<>>
                 ELSE [m \in MemberIds |-> [roles |-> {}, nick |-> "a", oid |-> 1]]
    /\ overwrites = <<>>
    /\ perm_result = NoResult
    /\ ChunkingIdle
    /\ max_messages = 0
    /\ before = None
    /\ after = None
    /\ last_message_id = None
    /\ current_count = 0
    /\ messages = <<>>
    /\ yielded = <<>>
    /\ fetches = <<>>
    /\ it_state = "idle"
    /\ DeleteIdle
    /\ CallIdle
    /\ TaskIdle

NextDelete ==
    \/ \E limit \in PurgeLimits, fallback \in BOOLEAN, check \in {"all", "odd"} :
            PurgeBegin(limit, fallback, check)
    \/ Anext
    \/ MessagePosted
    \/ \E cutoff \in MinimumAllowedValues : PurgeSplit(cutoff)
    \/ \E resp \in Responses : PurgeChunk(resp)
    \/ PurgeReturn
    \/ \E msgs \in BulkLists, cutoff \in MinimumAllowedValues, resp \in Responses :
            BulkDelete(msgs, cutoff, resp)

SpecDelete == InitDelete /\ [][NextDelete]_vars

\* The operation has returned or raised.
Ended == pc \in {"done", "failed"}

\* Positions of the candidates older than the cutoff.
OldCandidates == {i \in DOMAIN to_delete : to_delete[i] < minimum_allowed}

\* C12: in bulk_delete and in purge, if any deletion candidate has an id
\* below the 14-day minimum id, no remote delete call (bulk or per item) is
\* issued for any candidate of the run, and the operation fails with an
\* error that names such an id.
C12_AgeViolationBeforeAnyCall ==
    OldCandidates # {} =>
        /\ delete_calls = <<>>
        /\ Ended => /\ outcome.kind = "CuriousError"
                    /\ outcome.value \in {to_delete[i] : i \in OldCandidates}

\* C12 witness: a purge over more than one batch of candidates has failed
\* on a candidate that is too old.
C12_Witness ==
    /\ op = "purge"
    /\ Len(to_delete) > BATCH_MAX
    /\ outcome.kind = "CuriousError"
    /\ outcome.value < minimum_allowed

\* C12 witness for bulk_delete: the too-old message is the last of the list.
C12_WitnessBulkDelete ==
    /\ op = "bulk_delete"
    /\ Len(to_delete) > 1
    /\ outcome.kind = "CuriousError"
    /\ outcome.value = to_delete[Len(to_delete)]

RECURSIVE ConcatIds(_)
\* The ids carried by a sequence of remote calls, in issue order.
ConcatIds(calls) ==
    IF calls = <<>> THEN <<>> ELSE Head(calls).ids \o ConcatIds(Tail(calls))

\* The run has ended normally and every remote call was an accepted bulk call.
DoneByBulkOnly ==
    /\ pc = "done"
    /\ \A i \in DOMAIN delete_calls :
            delete_calls[i].kind = "bulk" /\ delete_calls[i].resp = "ok"

\* C13: every call to the bulk-delete endpoint made by purge or bulk_delete
\* carries at most 100 ids; the batches concatenated in issue order equal
\* the candidate list in its original order; 250 valid candidates give the
\* three batches 100, 100, 50.
C13_BatchesOfAtMost100 ==
    /\ \A i \in DOMAIN delete_calls :
            delete_calls[i].kind = "bulk" => Len(delete_calls[i].ids) <= 100
    /\ DoneByBulkOnly => ConcatIds(delete_calls) = to_delete
    /\ (DoneByBulkOnly /\ Len(to_delete) = 250)
            => [i \in DOMAIN delete_calls |-> Len(delete_calls[i].ids)]
                    = <<100, 100, 50>>

\* Positions of the remote calls the transport refused.
ForbiddenCalls == {i \in DOMAIN delete_calls : delete_calls[i].resp = "Forbidden"}

\* Position of the first refused call.
FirstForbidden == CHOOSE i \in ForbiddenCalls : \A j \in ForbiddenCalls : i <= j

\* The candidates from the first refused batch on.
FromRefusedBatch ==
    SubSeq(to_delete, BATCH_MAX * (FirstForbidden - 1) + 1, Len(to_delete))

\* C14: in purge with fallback_from_bulk true, after the first Forbidden
\* answer the bulk endpoint is never called again in that run, and the run
\* goes on to its last batch: when it has ended, it has returned and the
\* refused batch and every later one were deleted per item.
C14_FallbackIsPermanent ==
    (op = "purge" /\ fallback_from_bulk /\ ForbiddenCalls # {}) =>
        /\ \A j \in DOMAIN delete_calls :
                j > FirstForbidden => delete_calls[j].kind = "single"
        /\ Ended =>
              /\ outcome.kind = "returned"
              /\ ConcatIds(SubSeq(delete_calls, FirstForbidden + 1,
                                  Len(delete_calls))) = FromRefusedBatch

\* C15: in purge with fallback_from_bulk false, a Forbidden answer to a
\* bulk call propagates to the caller at once: the refused call is the last
\* remote call of the run, no per-item delete is issued and the batches
\* after the refused one are abandoned.
C15_ForbiddenPropagates ==
    (op = "purge" /\ ~fallback_from_bulk /\ ForbiddenCalls # {}) =>
        /\ pc = "failed"
        /\ outcome.kind = "Forbidden"
        /\ FirstForbidden = Len(delete_calls)
        /\ \A j \in DOMAIN delete_calls : delete_calls[j].kind = "bulk"

\* C15 witness: the second bulk call of a run over three batches was
\* refused, and the run ended there.
C15_Witness ==
    /\ op = "purge"
    /\ ~fallback_from_bulk
    /\ outcome.kind = "Forbidden"
    /\ Len(delete_calls) = 2
    /\ delete_calls[1].resp = "ok"
    /\ NumChunks(to_delete) = 3
    /\ chunks_done = 2

\* The accepted remote calls that carry the id.
SuccessfulDeletesOf(id) ==
    {j \in DOMAIN delete_calls :
        /\ delete_calls[j].resp = "ok"
        /\ \E k \in DOMAIN delete_calls[j].ids : delete_calls[j].ids[k] = id}

\* The calls that follow call j, as many as call j carries ids.
FollowUp(j) ==
    SubSeq(delete_calls, j + 1, Min(j + Len(delete_calls[j].ids), Len(delete_calls)))

\* C36: when a purge run has returned, every candidate is carried by exactly
\* one accepted delete call; an accepted bulk call is the only call that
\* carries its ids; a refused bulk call is followed at once by the per-item
\* deletes of the same batch, in order; the number returned is the number
\* of candidates.
C36_EveryCandidateDeletedOnce ==
    (op = "purge" /\ pc = "done") =>
        /\ \A i \in DOMAIN to_delete :
                Cardinality(SuccessfulDeletesOf(to_delete[i])) = 1
        /\ \A j \in DOMAIN delete_calls :
                LET c == delete_calls[j]
                IN /\ (c.kind = "bulk" /\ c.resp = "ok") =>
                          \A k \in DOMAIN c.ids : SuccessfulDeletesOf(c.ids[k]) = {j}
                   /\ (c.kind = "bulk" /\ c.resp = "Forbidden") =>
                          /\ ConcatIds(FollowUp(j)) = c.ids
                          /\ \A f \in DOMAIN FollowUp(j) :
                                 /\ FollowUp(j)[f].kind = "single"
                                 /\ FollowUp(j)[f].resp = "ok"
        /\ outcome = Returned(Len(to_delete))

\* C36 witness: a run over three batches returned; the first bulk call was
\* accepted, the second was refused and its batch deleted per item.
C36_Witness ==
    /\ op = "purge"
    /\ pc = "done"
    /\ NumChunks(to_delete) = 3
    /\ delete_calls[1].kind = "bulk"
    /\ delete_calls[1].resp = "ok"
    /\ delete_calls[2].kind = "bulk"
    /\ delete_calls[2].resp = "Forbidden"
    /\ delete_calls[3].kind = "single"

(***************************************************************************)
(* SpecCache: snapshots and member chunks applied to one guild's cache     *)
(***************************************************************************)
CacheSnapshots ==
    [unavailable : {FALSE}, member_count : {1}, roles : SnapshotRoles,
     members : MemberLists, channels : SUBSET ChannelIds,
     emojis : SUBSET EmojiIds]
    \cup [unavailable : {TRUE}, member_count : {0}, roles : {<<>>},
          members : {<<>>}, channels : {{}}, emojis : {{}}]

\* Guild.__init__ on a stub that carries the id only.
InitCache ==
    /\ roles = <<>>
    /\ members = <<>>
    /\ ChunkingIdle
    /\ channel_guild_id = GuildId
    /\ guild_cached = TRUE
    /\ overwrites = <<>>
    /\ perm_result = NoResult
    /\ HistoryIdle
    /\ DeleteIdle
    /\ CallIdle
    /\ TaskIdle

NextCache ==
    \/ \E recs \in MemberLists : HandleMemberChunk(recs)
    \/ \E data \in CacheSnapshots : FromGuildCreate(data)

SpecCache == InitCache /\ [][NextCache]_vars

\* The last event ran _handle_member_chunk over its member records.
ChunkApplied ==
    \/ last_event.kind = "chunk"
    \/ last_event.kind = "snapshot" /\ ~last_event.snapshot.unavailable

\* The member records of the last event whose member was cached before it.
RecordsOfCached ==
    {i \in DOMAIN last_event.recs :
        last_event.recs[i].id \in DOMAIN last_event.prior}

\* C16: after _handle_member_chunk every member id of the chunk is a key of
\* the member map, and for an id cached before the call the mapped object
\* is the very object that was mapped before.
C16_UpsertKeepsIdentity ==
    ChunkApplied =>
        \A i \in DOMAIN last_event.recs :
            LET id == last_event.recs[i].id
            IN /\ id \in DOMAIN members
               /\ id \in DOMAIN last_event.prior
                    => members[id].oid = last_event.prior[id].oid

\* C16 witness: a chunk has updated the roles of a member cached before.
C16_Witness ==
    /\ last_event.kind = "chunk"
    /\ \E i \in RecordsOfCached :
            LET id == last_event.recs[i].id
            IN /\ members[id].roles # last_event.prior[id].roles
               /\ members[id].oid = last_event.prior[id].oid

\* C17: for a member cached before, _handle_member_chunk sets the role set
\* and the nickname to those of the record: the member holds exactly the
\* record's role ids that the guild knows, and the record's nickname.
C17_UpsertReplacesRolesAndNick ==
    ChunkApplied =>
        \A i \in RecordsOfCached :
            LET rec == last_event.recs[i]
            IN /\ members[rec.id].roles = rec.roles \cap DOMAIN roles
               /\ members[rec.id].nick = rec.nick

\* C18: every role id held by a cached member is a key of the guild's role
\* map; a member record that names a role id unknown to the guild is
\* applied, and that id is left out of the member's role set.
C18_HeldRolesAreKnown ==
    /\ \A m \in DOMAIN members : members[m].roles \subseteq DOMAIN roles
    /\ ChunkApplied =>
          \A i \in DOMAIN last_event.recs :
              LET rec == last_event.recs[i]
              IN /\ rec.id \in DOMAIN members
                 /\ (rec.roles \ DOMAIN roles) \cap members[rec.id].roles = {}

\* C18 witness: a record naming a known and an unknown role was applied
\* and the member holds the known one.
C18_Witness ==
    /\ last_event.kind = "chunk"
    /\ \E i \in DOMAIN last_event.recs :
            LET rec == last_event.recs[i]
            IN /\ rec.roles \cap UnknownRoleIds # {}
               /\ rec.roles \cap DOMAIN roles # {}
               /\ members[rec.id].roles = rec.roles \cap DOMAIN roles

\* C19: while the guild is marked unavailable its role, member, channel and
\* emoji collections are empty, also when an earlier available snapshot had
\* populated them.
C19_UnavailableIsEmpty ==
    unavailable =>
        /\ DOMAIN roles = {}
        /\ DOMAIN members = {}
        /\ DOMAIN channels = {}
        /\ DOMAIN emojis = {}

\* C20: after from_guild_create with an available snapshot the key sets of
\* the role, member, channel and emoji maps are exactly the ids present in
\* that snapshot.
C20_SnapshotReplaces ==
    (last_event.kind = "snapshot" /\ ~last_event.snapshot.unavailable) =>
        /\ DOMAIN roles = last_event.snapshot.roles
        /\ DOMAIN members
              = {last_event.recs[i].id : i \in DOMAIN last_event.recs}
        /\ DOMAIN channels = last_event.snapshot.channels
        /\ DOMAIN emojis = last_event.snapshot.emojis

\* C22: after any sequence of snapshots and member chunks, whenever the last
\* event was a snapshot (the unavailable one included) the role map holds
\* the role whose id is the guild id, so default_role resolves.
C22_EveryoneRoleAlwaysPresent ==
    last_event.kind = "snapshot" => GuildId \in DOMAIN roles

(***************************************************************************)
(* SpecLookup: cache events interleaved with the guild's lookups           *)
(***************************************************************************)
\* Snapshots of a small guild, the unavailable one included.
LookupSnapshots ==
    [unavailable : {FALSE}, member_count : {1},
     roles : {[r \in {GuildId} |-> {}], [r \in {GuildId, 2} |-> {}]},
     members : ChunkLists, channels : {ChannelIds}, emojis : {EmojiIds}]
    \cup [unavailable : {TRUE}, member_count : {0}, roles : {<<>>},
          members : {<<>>}, channels : {{}}, emojis : {{}}]

\* Ids a caller may ask for: cached ones, ones of another collection, and
\* one that no collection ever holds.
LookupIds == {GuildId, 4, 5, 7} \cup UnknownRoleIds

\* The parent_id of the channel: unset, a cached category's, an unknown one.
ParentIds == {None} \cup (ChannelIds \ {ThisChannel}) \cup UnknownRoleIds

NextLookup ==
    \/ \E recs \in ChunkLists : HandleMemberChunk(recs)
    \/ \E data \in LookupSnapshots : FromGuildCreate(data)
    \/ \E id \in LookupIds : GetMember(id)
    \/ \E id \in LookupIds : GetRole(id)
    \/ \E id \in LookupIds : GetChannel(id)
    \/ \E id \in LookupIds : GetEmoji(id)
    \/ \E pid \in ParentIds : ChannelParent(pid)
    \/ GuildRemoved

SpecLookup == InitCache /\ [][NextLookup]_vars

\* The map a lookup reads.
LookupMap(name) ==
    CASE name = "get_member"  -> members
      [] name = "get_role"    -> roles
      [] name = "get_channel" -> channels
      [] name = "get_emoji"   -> emojis

LookupNames == {"get_member", "get_role", "get_channel", "get_emoji"}

\* What tells one call from another, the returned value left aside.
CallKey(c) == <<c.name, c.arg, c.kind>>

\* C21: get_member, get_role, get_channel and get_emoji return the cached
\* record when the id is a key of their map and None otherwise; in every
\* guild state, the unavailable one included, a lookup raises nothing and
\* leaves the cache as it was.
C21_LookupsNeverRaise ==
    [][(CallKey(call') # CallKey(call) /\ call'.name \in LookupNames) =>
          LET map == LookupMap(call'.name)
          IN /\ call'.kind \in {"value", "None"}
             /\ call'.arg \in DOMAIN map =>
                    call'.kind = "value" /\ call'.value = map[call'.arg]
             /\ call'.arg \notin DOMAIN map => call'.kind = "None"
             /\ guildVars' = guildVars]_vars

\* C21 witness: get_role missed on an unavailable guild whose cache holds
\* a member from an earlier event.
C21_Witness ==
    /\ call.name = "get_role"
    /\ call.kind = "None"
    /\ unavailable
    /\ call.arg \notin DOMAIN roles
    /\ 4 \in DOMAIN members

\* C21 witness: get_member found the cached member record.
C21_WitnessHit ==
    /\ call.name = "get_member"
    /\ call.kind = "value"
    /\ call.arg \in DOMAIN members
    /\ call.value = members[call.arg]

\* The channels of the guild that are categories.
CategoryIds == ChannelIds \ {ThisChannel}

\* C29: Channel.parent never fails: it gives the category of the same guild
\* whose id is parent_id, and None when parent_id is unset, is not the id of
\* such a channel of that guild, or the channel has no guild.
C29_ParentNeverFails ==
    call.name = "parent" =>
        IF ChannelHasGuild /\ call.arg \in DOMAIN channels \cap CategoryIds
        THEN call.kind = "value" /\ call.value = call.arg
        ELSE call.kind = "None"

(***************************************************************************)
(* SpecOverwrite: overwrite updates, Channel.permissions and the resolver  *)
(* on one channel                                                          *)
(***************************************************************************)
\* The longest overwrite list a channel update carries.
MaxOverwrites == 3

\* Overwrite records of a channel payload: the everyone role and a role,
\* each allowing or denying send_messages, and a member allowing it.
OverwriteRecords ==
    {[id |-> i, type |-> "role", allow |-> v[1], deny |-> v[2]] :
        i \in {GuildId, 2},
        v \in {<<{SEND_MESSAGES}, {}>>, <<{}, {SEND_MESSAGES}>>}}
    \cup {[id |-> m, type |-> "member", allow |-> {SEND_MESSAGES}, deny |-> {}] :
            m \in MemberIds}

RecordIds(recs) == {recs[i].id : i \in 1..Len(recs)}

\* Lists with one record per principal at most, in every order.
OverwriteLists ==
    {recs \in UNION {[1..n -> OverwriteRecords] : n \in 0..MaxOverwrites} :
        Cardinality(RecordIds(recs)) = Len(recs)}

\* Guilds with the everyone role, with or without role 2; the member holds
\* any of the roles the guild has.
OverwriteGuildRoles ==
    {[r \in D |-> IF r = GuildId THEN b ELSE {}] :
        D \in {{GuildId}, {GuildId, 2}},
        b \in {{SEND_MESSAGES}, {ADMINISTRATOR}}}

InitOverwrite ==
    /\ roles \in OverwriteGuildRoles
    /\ members \in [MemberIds ->
                       [roles : SUBSET (DOMAIN roles \ {GuildId}), nick : {"a"},
                        oid : {1}]]
    /\ channel_guild_id \in {None, GuildId}
    /\ guild_cached = TRUE
    /\ overwrites = <<>>
    /\ perm_result = NoResult
    /\ ChunkingIdle
    /\ HistoryIdle
    /\ DeleteIdle
    /\ CallIdle
    /\ TaskIdle

NextOverwrite ==
    \/ \E recs \in OverwriteLists : UpdateOverwrites(recs)
    \/ \E p \in {GuildId, 2} \cup MemberIds : ChannelPermissions(p)
    \/ \E m \in MemberIds : QueryEffectivePermissions(m)
    \/ GuildRemoved

SpecOverwrite == InitOverwrite /\ [][NextOverwrite]_vars

\* C23: in a guild channel permissions(p) returns the stored overwrite for
\* p's id when the table has one; otherwise an overwrite that targets p on
\* this channel, with the allow and deny of the everyone overwrite when the
\* table has that one, else with the everyone role's baseline as allow and
\* nothing denied.
C23_PermissionsFallsBackToEveryone ==
    (call.name = "permissions" /\ ChannelHasGuild) =>
        /\ call.kind = "value"
        /\ IF call.arg \in DOMAIN overwrites
           THEN call.value = overwrites[call.arg]
           ELSE /\ call.value.obb = call.arg
                /\ call.value.channel_id = ThisChannel
                /\ IF GuildId \in DOMAIN overwrites
                   THEN /\ call.value.allow = overwrites[GuildId].allow
                        /\ call.value.deny = overwrites[GuildId].deny
                   ELSE /\ call.value.allow = roles[GuildId]
                        /\ call.value.deny = {}

\* C23 witness: the member has no entry, the everyone role grants
\* send_messages and the everyone overwrite denies it; the returned
\* overwrite targets the member and denies it.
C23_Witness ==
    /\ call.name = "permissions"
    /\ ChannelHasGuild
    /\ call.arg \in MemberIds
    /\ call.arg \notin DOMAIN overwrites
    /\ GuildId \in DOMAIN overwrites
    /\ SEND_MESSAGES \in roles[GuildId]
    /\ call.value.deny = {SEND_MESSAGES}
    /\ call.value.allow = {}
    /\ call.value.obb = call.arg

\* C24: permissions(p) for a principal without an entry stores nothing: the
\* table has no entry for p and is still exactly the table the last update
\* built, and the returned overwrite is marked immutable.
C24_SynthesizedNeverCached ==
    (call.name = "permissions" /\ call.arg \notin RecordIds(ow_received)) =>
        /\ call.kind = "value"
        /\ call.arg \notin DOMAIN overwrites
        /\ overwrites = TableFrom(<<>>, ow_received)
        /\ call.value.immutable

\* C24 witness: permissions was called for a role without an entry on a
\* guild channel whose table has other entries.
C24_Witness ==
    /\ call.name = "permissions"
    /\ ChannelHasGuild
    /\ call.arg = 2
    /\ call.arg \notin RecordIds(ow_received)
    /\ Len(ow_received) = 2
    /\ call.value.immutable
    /\ DOMAIN overwrites = {GuildId} \cup MemberIds

\* b is a reordering of a: the same records in another order.
IsReordering(a, b) ==
    /\ a # b
    /\ Len(a) = Len(b)
    /\ {a[i] : i \in 1..Len(a)} = {b[i] : i \in 1..Len(b)}

\* In the resolved bitfield a bit that a held role's overwrite or the
\* member's overwrite mentions follows that overwrite, whatever the
\* everyone overwrite says about it.
EveryoneAppliedFirst ==
    ChannelHasGuild =>
        \A m \in DOMAIN members : \A b \in PermBits :
            (~HoldsAdministrator(m) /\ OutermostTier(m, b) \in {2, 3}) =>
                LET t == TierOf(m, OutermostTier(m, b))
                IN /\ (b \in t.allow \ t.deny) => b \in effective_permissions(m)
                   /\ (b \in t.deny \ t.allow) => b \notin effective_permissions(m)

\* C25: when a channel's overwrites arrive again in another order (one
\* record per principal) every member resolves to the same bitfield as
\* before, and after every update the everyone overwrite counts as applied
\* before the role and member overwrites.
C25_OrderOfReceiptIrrelevant ==
    [][(ow_received' # ow_received /\ ChannelHasGuild /\ ChannelHasGuild') =>
          /\ EveryoneAppliedFirst'
          /\ IsReordering(ow_received, ow_received') =>
                \A m \in DOMAIN members :
                    effective_permissions(m)' = effective_permissions(m)]_vars

\* C25 witness: the member's record came first and the everyone record
\* last; the everyone overwrite denies send_messages, the held role's
\* allows it, and the member resolves to having it.
C25_Witness ==
    /\ ChannelHasGuild
    /\ Len(ow_received) = MaxOverwrites
    /\ ow_received[1].id \in MemberIds
    /\ ow_received[1].allow = {SEND_MESSAGES}
    /\ ow_received[2].id = 2
    /\ ow_received[2].deny = {SEND_MESSAGES}
    /\ ow_received[3].id = GuildId
    /\ ow_received[3].deny = {SEND_MESSAGES}
    /\ 2 \in members[4].roles
    /\ ~HoldsAdministrator(4)
    /\ perm_result.kind = "ok"
    /\ SEND_MESSAGES \in perm_result.bits
    /\ SEND_MESSAGES \in effective_permissions(4)

\* C26: every entry of the overwrite table is marked immutable, carries the
\* id of this channel, is stored under the id of the record it was built
\* from, and its principal, when the guild resolves it, has that id.
C26_StoredOverwritesImmutable ==
    \A k \in DOMAIN overwrites :
        /\ overwrites[k].immutable
        /\ overwrites[k].channel_id = ThisChannel
        /\ overwrites[k].obb \in {None, k}
        /\ \E i \in 1..Len(ow_received) :
              /\ ow_received[i].id = k
              /\ overwrites[k].allow = ow_received[i].allow
              /\ overwrites[k].deny = ow_received[i].deny

\* C26 witness: a table of three entries, one for a role the guild does
\* not have.
C26_Witness ==
    /\ DOMAIN overwrites = {GuildId, 2} \cup MemberIds
    /\ overwrites[2].obb = None
    /\ overwrites[4].obb = 4
    /\ overwrites[4].immutable

(***************************************************************************)
(* SpecAct: the channel's message actions under every permission set       *)
(***************************************************************************)
\* The bits the message actions ask for.
ActionBits ==
    {SEND_MESSAGES, EMBED_LINKS, ATTACH_FILES, READ_MESSAGE_HISTORY,
     MANAGE_MESSAGES}

\* The channel's table: empty, or one entry that allows the acting member
\* to send and one entry that denies everyone to.
ActOverwriteLists ==
    {<<>>,
     <<[id |-> Me, type |-> "member", allow |-> {SEND_MESSAGES}, deny |-> {}]>>,
     <<[id |-> GuildId, type |-> "role", allow |-> {},
        deny |-> {SEND_MESSAGES}]>>}

InitAct ==
    /\ channel_guild_id \in {None, GuildId}
    /\ guild_cached = TRUE
    /\ roles \in {[r \in {GuildId} |-> b] : b \in SUBSET ActionBits}
    /\ members = [m \in MemberIds |-> [roles |-> {}, nick |-> "a", oid |-> 1]]
    /\ ow_received \in IF channel_guild_id = None THEN {<<>>}
                        ELSE ActOverwriteLists
    /\ overwrites = TableFrom(<<>>, ow_received)
    /\ perm_result = NoResult
    /\ channel_type \in {"text", "voice"}
    /\ call = NoCall
    /\ transport = <<>>
    /\ ChunkingIdle
    /\ HistoryIdle
    /\ DeleteIdle
    /\ TaskIdle

NextAct ==
    \/ \E content \in {0, 2, MAX_CONTENT + 1}, embed \in BOOLEAN :
            Send(content, embed)
    \/ \E known \in BOOLEAN : Upload(known)
    \/ SendTyping
    \/ \E limit \in {-1, DEFAULT_LIMIT} : GetHistory(limit)
    \/ \E id \in {1}, cached \in BOOLEAN : Get(id, cached)
    \/ \E msgs \in {<<2>>, <<2, 3>>}, cutoff \in {1, 3}, resp \in Responses :
            BulkDelete(msgs, cutoff, resp)
    \/ \E id \in {1}, author \in MemberIds \cup OtherMemberIds :
            MessageDelete(id, author)

SpecAct == InitAct /\ [][NextAct]_vars

\* The channel is a guild channel and the acting member's effective
\* permissions there do not include the bit.
NotGranted(bit) ==
    /\ channel_guild_id # None
    /\ guild_cached
    /\ bit \notin effective_permissions(Me)

ModerationBits ==
    {KICK_MEMBERS, BAN_MEMBERS, CHANGE_NICKNAME, MANAGE_NICKNAMES, MANAGE_ROLES}

InitModerate ==
    /\ roles \in {[r \in AllRoleIds |-> IF r = GuildId THEN b ELSE {}] :
                     b \in {{}, ModerationBits}}
    /\ members \in [MemberIds \cup OtherMemberIds ->
                       [roles : SUBSET RoleIds, nick : {"a"}, oid : {1}]]
    /\ channel_guild_id = GuildId
    /\ guild_cached = TRUE
    /\ overwrites = <<>>
    /\ perm_result = NoResult
    /\ ChunkingIdle
    /\ HistoryIdle
    /\ DeleteIdle
    /\ CallIdle
    /\ TaskIdle

NextModerate ==
    \/ \E v \in OtherMemberIds \cup {ForeignMemberId}, resp \in Responses :
            Kick(v, resp)
    \/ \E v \in OtherMemberIds \cup {ForeignMemberId},
          kind \in {"member", "user", "other"}, resp \in Responses :
            Ban(v, kind, resp)
    \/ \E m \in OtherMemberIds, rs \in SUBSET RoleIds \ {{}},
          resp \in Responses : AddRoles(m, rs, resp)
    \/ \E m \in OtherMemberIds, rs \in SUBSET RoleIds \ {{}},
          resp \in Responses : RemoveRoles(m, rs, resp)
    \/ \E m \in MemberIds \cup OtherMemberIds, nick \in {3, MAX_NICKNAME + 1},
          resp \in Responses : ChangeNickname(m, nick, resp)

SpecModerate == InitModerate /\ [][NextModerate]_vars

\* The rank of the highest role a member holds (0 is the everyone role's).
Rank(m) ==
    LET held == {0} \cup {r - GuildId : r \in members[m].roles}
    IN CHOOSE n \in held : \A k \in held : k <= n

\* The bit the last moderation call needs.
NeededBit ==
    CASE call.name = "kick" -> KICK_MEMBERS
      [] call.name = "ban" -> BAN_MEMBERS
      [] call.name \in {"add_roles", "remove_roles"} -> MANAGE_ROLES
      [] call.name = "change_nickname" -> MANAGE_NICKNAMES

\* The last call was aimed at or above the acting member's top role: a
\* member of this guild (another one, for change_nickname) whose top role
\* is, or a role handed to add_roles / remove_roles that is.
AimedAtOrAbove ==
    \/ /\ call.name \in {"kick", "change_nickname"}
       /\ call.arg.member \in DOMAIN members \ {Me}
       /\ Rank(call.arg.member) >= Rank(Me)
    \/ /\ call.name = "ban"
       /\ call.arg.kind = "member"
       /\ call.arg.member \in DOMAIN members
       /\ Rank(call.arg.member) >= Rank(Me)
    \/ /\ call.name \in {"add_roles", "remove_roles"}
       /\ \E r \in call.arg.roles : r - GuildId >= Rank(Me)

C32_OwnMessageDeletable ==
    call.name = "delete" =>
        IF \/ call.arg.author = Me
           \/ ChannelHasGuild /\ ~NotGranted(MANAGE_MESSAGES)
        THEN /\ call.kind = "value"
             /\ transport = <<Request("delete_message", call.arg)>>
        ELSE /\ call.kind = "PermissionsError"
             /\ transport = <<>>

(***************************************************************************)
(* SpecAge: the age cutoff of bulk_delete and purge over clock readings    *)
(***************************************************************************)
\* Clock readings around the instant 14 days after the snowflake epoch.
ClockReadings == (-1)..(2 * ClockTicksPerMs + 1)

\* The snowflake with the given timestamp part and low part.
Snowflake(ts, low) == ts * 2^SNOWFLAKE_SHIFT + low

\* id >> 22
TimestampPart(id) == id \div 2^SNOWFLAKE_SHIFT

AgedIds == {Snowflake(ts, low) : ts \in 0..2, low \in {0, 1, 2^SNOWFLAKE_SHIFT - 1}}

\* Message lists of up to two messages of any age.
AgedLists == {<<>>} \cup {<<a>> : a \in AgedIds} \cup {<<a, b>> : a, b \in AgedIds}

InitAge ==
    /\ chan_msgs = 2
    /\ channel_guild_id \in {None, GuildId}
    /\ guild_cached = TRUE
    /\ roles \in IF channel_guild_id = None THEN {<<>>}
                 ELSE {[r \in {GuildId} |-> b] : b \in MePermissionSets}
    /\ members = IF channel_guild_id = None THEN <<>>
                 ELSE [m \in MemberIds |-> [roles |-> {}, nick |-> "a", oid |-> 1]]
    /\ overwrites = <<>>
    /\ perm_result = NoResult
    /\ ChunkingIdle
    /\ max_messages = 0
    /\ before = None
    /\ after = None
    /\ last_message_id = None
    /\ current_count = 0
    /\ messages = <<>>
    /\ yielded = <<>>
    /\ fetches = <<>>
    /\ it_state = "idle"
    /\ DeleteIdle
    /\ CallIdle
    /\ TaskIdle

NextAge ==
    \/ \E msgs \in AgedLists, now \in ClockReadings, resp \in Responses :
            BulkDelete(msgs, MinimumAllowed(now), resp)
    \/ \E limit \in {1, DEFAULT_LIMIT}, fallback \in BOOLEAN, check \in {"all", "odd"} :
            PurgeBegin(limit, fallback, check)
    \/ Anext
    \/ \E now \in ClockReadings : PurgeSplit(MinimumAllowed(now))
    \/ \E resp \in Responses : PurgeChunk(resp)
    \/ PurgeReturn

SpecAge == InitAge /\ [][NextAge]_vars

\* The whole milliseconds of a clock reading: the integer f with
\* f <= since / ClockTicksPerMs < f + 1.
WholeMs(since) ==
    CHOOSE f \in (-2)..3 :
        f * ClockTicksPerMs <= since /\ since < (f + 1) * ClockTicksPerMs

\* Some message of the list has a timestamp part below f.
SomeOlderThan(ids, f) == \E i \in DOMAIN ids : TimestampPart(ids[i]) < f

\* C34: with the clock read at `now`, bulk_delete (past its permission
\* check) raises CuriousError iff some message's timestamp part (id >> 22)
\* is strictly below the whole milliseconds of now - 14 days - epoch,
\* whatever the low 22 bits; purge stores the same cutoff and each of its
\* loop iterations raises CuriousError iff a message of the chunk has a
\* timestamp part below it.
C34_AgeCutoffIsMillisecondFloor ==
    [][/\ \A now \in ClockReadings :
            /\ ( /\ \E msgs \in AgedLists, resp \in Responses :
                        BulkDelete(msgs, MinimumAllowed(now), resp)
                 /\ outcome'.kind # "PermissionsError" )
                  => ( outcome'.kind = "CuriousError"
                         <=> SomeOlderThan(to_delete', WholeMs(now)) )
            /\ PurgeSplit(MinimumAllowed(now))
                  => minimum_allowed' = Snowflake(WholeMs(now), 0)
       /\ (\E resp \in Responses : PurgeChunk(resp))
            => ( outcome'.kind = "CuriousError"
                   <=> SomeOlderThan(MessageChunk(to_delete, chunks_done'),
                                     TimestampPart(minimum_allowed)) )]_vars

\* C34 witness: bulk_delete went through with a message whose id is exactly
\* the cutoff (created in the millisecond 14 days before now) and a message
\* of the same millisecond with all low bits set.
C34_Witness ==
    /\ op = "bulk_delete"
    /\ pc = "done"
    /\ minimum_allowed = Snowflake(1, 0)
    /\ to_delete = <<Snowflake(1, 2^SNOWFLAKE_SHIFT - 1), Snowflake(1, 0)>>

\* C34 witness: bulk_delete refused a message created one millisecond
\* before the cutoff, its low bits all set.
C34_WitnessRejected ==
    /\ op = "bulk_delete"
    /\ outcome = Raised("CuriousError", Snowflake(1, 2^SNOWFLAKE_SHIFT - 1))
    /\ minimum_allowed = Snowflake(2, 0)

\* C34 witness: a purge iteration refused a message below the cutoff.
C34_WitnessPurge ==
    /\ op = "purge"
    /\ outcome.kind = "CuriousError"
    /\ minimum_allowed = Snowflake(1, 0)

(***************************************************************************)
(* SpecCursor: a HistoryIterator advanced by hand past its end             *)
(***************************************************************************)
CursorChannelSizes == {0, 2, 5}

CursorLimits == {-1, 0, 1, 2, 3}

\* HistoryIterator.__init__
InitCursor ==
    /\ chan_msgs \in CursorChannelSizes
    /\ max_messages \in CursorLimits
    /\ before \in {None, chan_msgs + 1}
    /\ after \in {None, 1}
    /\ last_message_id = IF before # None THEN before ELSE after
    /\ current_count = 0
    /\ messages = <<>>
    /\ yielded = <<>>
    /\ fetches = <<>>
    /\ it_state = "active"
    /\ roles = <<>>
    /\ members = <<>>
    /\ ChunkingIdle
    /\ channel_guild_id = None
    /\ guild_cached = TRUE
    /\ overwrites = <<>>
    /\ perm_result = NoResult
    /\ DeleteIdle
    /\ CallIdle
    /\ TaskIdle

NextCursor ==
    \/ Anext
    \/ NextAfterEnd

SpecCursor == InitCursor /\ [][NextCursor]_vars

\* C35: once an advance has signalled the end, every later advance on the
\* same cursor signals the end too and yields nothing, and a cursor with a
\* positive maximum never yields more messages than its maximum.
C35_ExhaustionIsSticky ==
    [][/\ Stopped => (it_state' = "stopped" /\ yielded' = yielded)
       /\ max_messages > 0 => Len(yielded') <= max_messages]_vars

(***************************************************************************)
(* SpecReplace: successive overwrite lists, repeated ids included          *)
(***************************************************************************)
\* Lists of up to two records, the same principal possibly twice.
ReplaceLists == UNION {[1..n -> OverwriteRecords] : n \in 0..2}

NextReplace ==
    \/ \E recs \in ReplaceLists : UpdateOverwrites(recs)
    \/ \E p \in {GuildId, 2} \cup MemberIds : ChannelPermissions(p)

SpecReplace == InitOverwrite /\ [][NextReplace]_vars

\* The last record of the list that names the principal.
LastRecordOf(recs, id) ==
    recs[CHOOSE i \in DOMAIN recs :
            /\ recs[i].id = id
            /\ \A j \in DOMAIN recs : recs[j].id = id => j <= i]

\* C39: a call of _update_overwrites that returns leaves a table whose keys
\* are exactly the ids of the given list, each entry carrying the allow and
\* deny of the last record with its id, whatever the table held before; on
\* a channel without a guild id the call raises CuriousError and the table
\* is unchanged.
C39_UpdateReplacesTable ==
    [][\A recs \in ReplaceLists :
          UpdateOverwrites(recs) =>
              IF channel_guild_id = None
              THEN /\ call'.kind = "CuriousError"
                   /\ overwrites' = overwrites
              ELSE call'.kind = "None" =>
                      /\ DOMAIN overwrites' = RecordIds(recs)
                      /\ \A id \in RecordIds(recs) :
                            /\ overwrites'[id].allow = LastRecordOf(recs, id).allow
                            /\ overwrites'[id].deny = LastRecordOf(recs, id).deny]_vars

\* C39 witness: a list naming role 2 twice, first allowing and then denying
\* send_messages, was applied; the table holds the denying entry for role 2
\* alone.
C39_Witness ==
    /\ call.name = "_update_overwrites"
    /\ call.kind = "None"
    /\ Len(ow_received) = 2
    /\ ow_received[1].id = 2
    /\ ow_received[2].id = 2
    /\ ow_received[1].allow = {SEND_MESSAGES}
    /\ DOMAIN overwrites = {2}
    /\ overwrites[2].deny = {SEND_MESSAGES}
    /\ overwrites[2].allow = {}

\* C39 witness: the call was refused on a channel without a guild id.
C39_WitnessRefused ==
    /\ call.name = "_update_overwrites"
    /\ call.kind = "CuriousError"
    /\ channel_guild_id = None
    /\ overwrites = <<>>

(***************************************************************************)
(* SpecListen: one add_roles / remove_roles / change_nickname call, its    *)
(* listener task, the remote side's answer and the gateway's events        *)
(***************************************************************************)
\* The acting member holds role 3 or no role, the target holds role 2 or no
\* role; the everyone role grants every moderation bit or none.
InitListen ==
    /\ roles \in {[r \in AllRoleIds |-> IF r = GuildId THEN b ELSE {}] :
                     b \in {{}, ModerationBits}}
    /\ members \in {[m \in MemberIds \cup OtherMemberIds |->
                        [roles |-> IF m = Me THEN mine
                                   ELSE IF m = OwnerId THEN theirs ELSE {},
                         nick |-> "a", oid |-> 1]] :
                        mine \in {{}, {3}}, theirs \in {{}, {2}}}
    /\ channel_guild_id = GuildId
    /\ guild_cached = TRUE
    /\ overwrites = <<>>
    /\ perm_result = NoResult
    /\ ChunkingIdle
    /\ HistoryIdle
    /\ DeleteIdle
    /\ CallIdle
    /\ TaskIdle

\* Updates of the target and of another member that other actors cause.
ForeignUpdates ==
    {MemberUpdate(OwnerId, {2, 3}, GuildId), MemberUpdate(OwnerId, {}, GuildId),
     MemberUpdate(10, {}, GuildId)}

NextListen ==
    \/ \E name \in {"add_roles", "remove_roles"}, rs \in {{2}, {3}} :
            BeginCall(name, OwnerId, rs, 0)
    \/ \E nick \in {3, MAX_NICKNAME + 1} :
            BeginCall("change_nickname", OwnerId, {}, nick)
    \/ RunCaller
    \/ RunListener
    \/ RunGateway
    \/ \E resp \in Responses, emits \in BOOLEAN : RemoteAnswers(resp, emits)
    \/ \E ev \in ForeignUpdates : ForeignUpdate(ev)

SpecListen == InitListen /\ [][NextListen]_vars

\* The listener task exists and has neither ended nor been cancelled.
ListenerAlive == listener \in {"ready", "listening"}

\* C40: the listener task has been spawned when the request is issued, and
\* no member_update that arrives after the request and that the listener
\* would accept is dispatched before the listener is registered; when the
\* call has raised no listener task is alive; when it has returned the
\* listener has ended on a member_update of the target member.
C40_ListenerSpawnedFirstAndReaped ==
    [][/\ (transport = <<>> /\ transport' # <<>>) => ListenerAlive \/ listener = "done"
       /\ missed' = <<>>
       /\ task_pc' = "raised" => ~ListenerAlive'
       /\ task_pc' = "returned" =>
             /\ listener' = "done"
             /\ observed' # <<>>
             /\ observed'[1].id = call'.arg.member]_vars

\* C40 witness: the request was answered with a failure while the listener
\* was registered; the call raised and the listener is cancelled.
C40_Witness ==
    /\ task_pc = "raised"
    /\ transport # <<>>
    /\ call.kind = "Forbidden"
    /\ listener = "cancelled"

\* C40 witness: add_roles returned after the listener had accepted the
\* update the request caused.
C40_WitnessReturned ==
    /\ task_pc = "returned"
    /\ call.name = "add_roles"
    /\ call.kind = "value"
    /\ listener = "done"
    /\ observed = <<MemberUpdate(OwnerId, {2}, GuildId)>>

====
